---- MODULE Spec2Model ----
(***************************************************************************)
(* telecalbot: the Cal.com API client (retry helper, availability cache)   *)
(* and the Telegram booking conversation that drives it.                   *)
(*                                                                         *)
(* Twelve specifications share this module:                                *)
(*   SpecRetry   one call of CalComClient._request_with_retry against a    *)
(*               script of upstream responses;                             *)
(*   SpecPost    one call of create_booking against a script of upstream   *)
(*               responses, with what the provider made of each POST;      *)
(*   SpecClient  get_availability / create_booking called by concurrently  *)
(*               running callers, with the cache, the clock and upstream;  *)
(*   SpecRace    the same calls, with the history of the fetches begun     *)
(*               since the last booking;                                   *)
(*   SpecAccess  /start and the admin's commands over the whitelist, the   *)
(*               access requests and the duration limits;                  *)
(*   Spec        the booking conversation handlers of the bot, one run to  *)
(*               completion per update, calling the client; the tables are *)
(*               as SpecAccess can leave them, and a conversation is       *)
(*               shorter than the cache's TTL (expiry is SpecClient's).    *)
(*   SpecName    enter_name applied to names of every kind;                *)
(*   SpecEmail   enter_email applied to texts of every kind;               *)
(*   SpecDuration  _format_duration applied to booking results;            *)
(*   SpecWhitelist  the methods of WhitelistService on any request;        *)
(*   SpecBookings  the methods of BookingService on a bookings table;      *)
(*   SpecKeyboard  build_availability_keyboard applied to availability     *)
(*               responses of up to MaxDates dates.                        *)
(***************************************************************************)
EXTENDS Integers, Sequences, FiniteSets, TLC

VARIABLES
    responses,  \* SpecRetry: the upstream's answers to the successive HTTP attempts
    result,     \* SpecRetry: what _request_with_retry returned or raised (NoResult before)
    cache,      \* CalComClient._availability_cache: cache key -> (cached_at, data)
    now,        \* time.time(), in seconds
    upver,      \* the version of the upstream's availability (changes with every booking)
    inflight,   \* per caller: the client call suspended in its HTTP request
    last,       \* the client call that completed last, with what it returned or raised
    fetched,    \* history: per arguments, the last snapshot fetched since the last booking
    cleared,    \* history: arguments whose entry a booking dropped and no fetch restored
    settings,   \* app.config.settings: the event type ids configured
    whitelist,  \* the whitelist table: the people approved
    access_requests, \* the access_requests table: user -> status (absent: no row)
    limits,     \* the duration_limits table: user -> max_duration_minutes (absent: no row)
    conv,       \* ConversationHandler: per user, the conversation's state (END: none)
    user_data,  \* context.user_data: per user, a dict
    shown,      \* per user, the message the conversation showed last
    requested,  \* per user, the BookingRequest the handler that ran last for the user
                \* passed to create_booking (NoRequest when it passed none)
    bookings,   \* the bookings table: its rows
    snapshot,   \* SpecKeyboard: AvailabilityResponse.slots, date -> list of slots
    keyboard,   \* SpecKeyboard: the rows build_availability_keyboard made of it
    returned,   \* the call of a service method or helper the step taken last made:
                \* its name, its arguments and what it returned (NoReturn if none)
    sent,       \* the messages the command handled last sent: recipient and text
    unfetched   \* SpecRace, history: the arguments no get_availability has begun
                \* for since the last create_booking that succeeded

varsRetry == <<responses, result>>
varsClient == <<cache, now, upver, inflight, last, fetched, cleared>>
varsBot == <<settings, whitelist, access_requests, limits, conv, user_data, shown,
             requested, bookings, snapshot, keyboard, returned, sent>>
varsConv == <<varsBot, unfetched>>
vars == <<responses, result, cache, now, upver, inflight, last, fetched, cleared,
          settings, whitelist, access_requests, limits, conv, user_data, shown,
          requested, bookings, snapshot, keyboard, returned, sent, unfetched>>

\* A call of a service method or helper with what it returned
Call(name, args, value) == [call |-> name, args |-> args, value |-> value]
NoReturn == Call("", << >>, << >>)

(***************************************************************************)
(* Bounds of the model.                                                    *)
(***************************************************************************)
\* Number of upstream answers scripted for one helper call (more than the
\* helper can consume, so that an extra attempt would be visible).
RespLen == 4
\* The clock advances in steps of TimeStep seconds up to MaxTime.
TimeStep == 150
MaxTime == 310
\* The upstream's availability changes at most this many times.
MaxUpstreamVer == 1
\* The pagination cursor offset_days goes up to MaxOffsetDays.
MaxOffsetDays == 5
MaxDates == 6
MaxSlots == 7

(***************************************************************************)
(* CalComClient._request_with_retry                                        *)
(***************************************************************************)
\* max_retries: int = 3
max_retries == 3

\* HTTP statuses the upstream may answer with; 200 is the success.
Statuses == {200, 400, 401, 403, 404, 409, 422, 429, 500, 502, 503, 504}

\* One upstream answer to one HTTP attempt: either httpx.RequestError is raised
\* (exc, no HTTP response) or a response with a status; body identifies the
\* answer's text / JSON payload.
Response(exc, status, body) == [exc |-> exc, status |-> status, body |-> body]

\* last_error: Exception | None = None
NoError == Response(FALSE, 0, 0)

\* for attempt in range(max_retries)
AttemptsOffByOne == 0 .. max_retries
Attempts == 0 .. (max_retries - 1)

\* if status_code in (400, 401, 404, 422): raise CalComAPIError(status_code, text)
NoRetryStatusesWith503 == {400, 401, 404, 422, 503}
NoRetryStatuses == {400, 401, 404, 422}

\* response.raise_for_status(): raises HTTPStatusError for 4xx and 5xx
RaisesForStatus(status) == status >= 400

\* raise CalComAPIError(status_code=..., message=...)  /  return response.json()
\* message: kind "text" is e.response.text (the body of err), kind "retries" is
\* f"Failed after {max_retries} retries: {last_error}" (err is last_error).
Raised(status_code, kind, err, calls) ==
    [ok |-> FALSE, status_code |-> status_code, payload |-> 0,
     message |-> [kind |-> kind, err |-> err], calls |-> calls]
Returned(payload, calls) ==
    [ok |-> TRUE, status_code |-> 200, payload |-> payload,
     message |-> [kind |-> "none", err |-> NoError], calls |-> calls]

\* The 429 branch sleeps and continues without touching last_error.
After429(r, last_error) == last_error

\* The loop of _request_with_retry from iteration `attempt` on; rs[attempt + 1]
\* is the upstream's answer to that iteration's HTTP request.
RECURSIVE RetryLoop(_, _, _)
RetryLoop(rs, attempt, last_error) ==
    IF attempt \notin Attempts
    THEN Raised(0, "retries", last_error, attempt)
    ELSE LET r == rs[attempt + 1] IN
         IF r.exc
         THEN RetryLoop(rs, attempt + 1, r)
         ELSE IF r.status = 429
         THEN RetryLoop(rs, attempt + 1, After429(r, last_error))
         ELSE IF RaisesForStatus(r.status)
         THEN IF r.status \in NoRetryStatuses
              THEN Raised(r.status, "text", r, attempt + 1)
              ELSE RetryLoop(rs, attempt + 1, r)
         ELSE Returned(r.body, attempt + 1)

request_with_retry(rs) == RetryLoop(rs, 0, NoError)

(***************************************************************************)
(* The upstream's answers to one helper call.                              *)
(***************************************************************************)
NoResult == [ok |-> FALSE, status_code |-> 0, payload |-> 0,
             message |-> [kind |-> "pending", err |-> NoError], calls |-> 0]

\* What the upstream can do with one attempt: fail the transport, or answer
\* with one of Statuses.
Outcomes == {[exc |-> TRUE, status |-> 0]} \cup {[exc |-> FALSE, status |-> s] : s \in Statuses}

\* The answer to the i-th attempt carries body i.
Scripts == {[i \in 1 .. RespLen |-> Response(o[i].exc, o[i].status, i)] :
               o \in [1 .. RespLen -> Outcomes]}

(***************************************************************************)
(* CalComClient: get_availability, create_booking and the cache.           *)
(***************************************************************************)
\* cache_ttl: int = 300
cache_ttl == 300

\* The sessions (users) that call the client concurrently.
Callers == {"u1", "u2"}

\* str(date): dates are day numbers counted from 2026-01-01 = 1.
TwoDigits(n) == IF n < 10 THEN "0" \o ToString(n) ELSE ToString(n)
DateStr(d) == IF d <= 31 THEN "2026-01-" \o TwoDigits(d)
                         ELSE "2026-02-" \o TwoDigits(d - 31)

Args(event_type_id, start_date, end_date, timezone) ==
    [event_type_id |-> event_type_id, start_date |-> start_date,
     end_date |-> end_date, timezone |-> timezone]

\* The arguments the callers use: they differ in one component each.
GetArgs == {Args(101, 1, 15, "Europe/Moscow"),
            Args(101, 1, 15, "Asia/Omsk"),
            Args(102, 6, 20, "Europe/Moscow")}

\* cache_key = f"{event_type_id}:{start_date}:{end_date}:{timezone}"
CacheKeyNoTimezone(a) ==
    ToString(a.event_type_id) \o ":" \o DateStr(a.start_date) \o ":"
        \o DateStr(a.end_date)
CacheKey(a) ==
    ToString(a.event_type_id) \o ":" \o DateStr(a.start_date) \o ":"
        \o DateStr(a.end_date) \o ":" \o a.timezone

\* if time.time() - cached_at < self.cache_ttl
IsFreshInclusive(cached_at, t) == t - cached_at <= cache_ttl
IsFreshNever(cached_at, t) == FALSE
IsFresh(cached_at, t) == t - cached_at < cache_ttl

\* GET /slots/available: the upstream's availability for the request's
\* parameters, as of its current version.
Upstream(a, v) == [args |-> a, ver |-> v]
NoData == [args |-> Args(0, 0, 0, ""), ver |-> 0]

\* self._availability_cache[cache_key] = (time.time(), data)
CachePut(c, key, t, data) ==
    [k \in DOMAIN c \cup {key} |->
        IF k = key THEN [cached_at |-> t, data |-> data] ELSE c[k]]

\* self._availability_cache.clear()
CacheClearNothing(c) == c
CacheClear(c) == [k \in {} |-> NoData]

\* What one call of the request helper can end in, as far as the client's
\* callers here are concerned: success or CalComAPIError, after so many HTTP
\* attempts.
HelperResults ==
    {[ok |-> request_with_retry(rs).ok, calls |-> request_with_retry(rs).calls] :
        rs \in Scripts}

\* A caller's suspended call. twice and after_clear are history: whether the
\* call began within the TTL of an earlier fetch of its arguments, and whether
\* a booking had dropped the entry of its arguments.
Idle == [op |-> "idle", args |-> NoData.args, age |-> 0, twice |-> FALSE,
         after_clear |-> FALSE]

\* A completed call: calls is the number of HTTP attempts it made, hit whether
\* it returned cached data, age the age of the entry it found under its key
\* (0 when it found none), first the snapshot of the earlier fetch when twice.
NoCall == [op |-> "none", args |-> NoData.args, ok |-> FALSE, calls |-> 0,
           hit |-> FALSE, age |-> 0, data |-> NoData, twice |-> FALSE,
           first |-> NoData, after_clear |-> FALSE]

\* Time passes.
Tick ==
    /\ now + TimeStep <= MaxTime
    /\ now' = now + TimeStep
    /\ UNCHANGED <<cache, upver, inflight, last, fetched, cleared>>

\* The provider's calendar changes by other means than this client.
UpstreamChange ==
    /\ upver < MaxUpstreamVer
    /\ upver' = upver + 1
    /\ UNCHANGED <<cache, now, inflight, last, fetched, cleared>>

\* get_availability up to its first suspension: the cache check, and either the
\* return of the cached data or the start of the HTTP request.
GetAvailabilityBegin(c, a) ==
    LET cache_key == CacheKey(a)
        twice == a \in DOMAIN fetched /\ now - fetched[a].cached_at < cache_ttl
        first == IF twice THEN fetched[a].data ELSE NoData
    IN
    /\ inflight[c].op = "idle"
    /\ IF cache_key \in DOMAIN cache /\ IsFresh(cache[cache_key].cached_at, now)
       THEN /\ last' = [op |-> "get", args |-> a, ok |-> TRUE,
                        calls |-> 0, hit |-> TRUE,
                        age |-> now - cache[cache_key].cached_at,
                        data |-> cache[cache_key].data,
                        twice |-> twice, first |-> first,
                        after_clear |-> a \in cleared]
            /\ UNCHANGED inflight
       ELSE /\ inflight' = [inflight EXCEPT ![c] =
                        [op |-> "get", args |-> a,
                         age |-> IF cache_key \in DOMAIN cache
                                 THEN now - cache[cache_key].cached_at ELSE 0,
                         twice |-> twice, after_clear |-> a \in cleared]]
            /\ UNCHANGED last
    /\ UNCHANGED <<cache, now, upver, fetched, cleared>>

\* get_availability from the end of _request_with_retry on: store and return
\* the parsed data, or let CalComAPIError propagate.
GetAvailabilityEnd(c, r) ==
    LET call == inflight[c]
        data == Upstream(call.args, upver)
    IN
    /\ call.op = "get"
    /\ inflight' = [inflight EXCEPT ![c] = Idle]
    /\ last' = [op |-> "get", args |-> call.args, ok |-> r.ok,
                calls |-> r.calls, hit |-> FALSE,
                age |-> call.age, data |-> IF r.ok THEN data ELSE NoData,
                twice |-> call.twice, first |-> NoData,
                after_clear |-> call.after_clear]
    /\ IF r.ok
       THEN /\ cache' = CachePut(cache, CacheKey(call.args), now, data)
            /\ fetched' = CachePut(fetched, call.args, now, data)
            /\ cleared' = cleared \ {call.args}
       ELSE UNCHANGED <<cache, fetched, cleared>>
    /\ UNCHANGED <<now, upver>>

\* create_booking up to the HTTP request.
CreateBookingBegin(c) ==
    /\ inflight[c].op = "idle"
    /\ inflight' = [inflight EXCEPT ![c] = [Idle EXCEPT !.op = "book"]]
    /\ UNCHANGED <<cache, now, upver, last, fetched, cleared>>

\* create_booking, were it to clear the cache however its request ended
CreateBookingEndClearsAlways(c, r) ==
    /\ inflight[c].op = "book"
    /\ r.ok => upver < MaxUpstreamVer
    /\ inflight' = [inflight EXCEPT ![c] = Idle]
    /\ last' = [NoCall EXCEPT !.op = "book", !.ok = r.ok, !.calls = r.calls]
    /\ cache' = CacheClear(cache)
    /\ IF r.ok
       THEN /\ upver' = upver + 1
            /\ fetched' = [a \in {} |-> NoData]
            /\ cleared' = cleared \cup {a \in GetArgs : CacheKey(a) \in DOMAIN cache}
       ELSE UNCHANGED <<upver, fetched, cleared>>
    /\ UNCHANGED now

\* create_booking from the end of _request_with_retry on: clear the cache and
\* return the booking, or let CalComAPIError propagate.
CreateBookingEnd(c, r) ==
    /\ inflight[c].op = "book"
    /\ r.ok => upver < MaxUpstreamVer
    /\ inflight' = [inflight EXCEPT ![c] = Idle]
    /\ last' = [NoCall EXCEPT !.op = "book", !.ok = r.ok, !.calls = r.calls]
    /\ IF r.ok
       THEN /\ cache' = CacheClear(cache)
            /\ upver' = upver + 1
            /\ fetched' = [a \in {} |-> NoData]
            /\ cleared' = cleared \cup {a \in GetArgs : CacheKey(a) \in DOMAIN cache}
       ELSE UNCHANGED <<cache, upver, fetched, cleared>>
    /\ UNCHANGED now

(***************************************************************************)
(* The booking conversation: data, payloads, keyboards.                    *)
(***************************************************************************)
\* The users who talk to the bot, the admin (settings.admin_telegram_id), and
\* the users whose booking conversations Spec follows
Users == {"u1", "u2"}
Admin == "admin"
People == Users \cup {Admin}
Bookers == {"u1"}

\* update.effective_user.id
UserId(p) == IF p = Admin THEN 1000 ELSE IF p = "u1" THEN 1001 ELSE 1002

\* RUSSIAN_TIMEZONES (two of the eleven), with their UTC offsets in hours
Timezones == {"Europe/Moscow", "Asia/Omsk"}
UtcOffset(tz) == IF tz = "Europe/Moscow" THEN 3 ELSE 6

\* DURATION_OPTIONS = {30: "30 минут", 60: "60 минут"}; VALID_DURATIONS
DURATION_OPTIONS == {30, 60}
VALID_DURATIONS == {30, 60}

\* MAX_NAME_LENGTH = 100
MAX_NAME_LENGTH == 100

\* BookingState and ConversationHandler.END
END == "END"
SELECTING_TIMEZONE == "SELECTING_TIMEZONE"
SELECTING_DURATION == "SELECTING_DURATION"
VIEWING_AVAILABILITY == "VIEWING_AVAILABILITY"
ENTERING_NAME == "ENTERING_NAME"
EMAIL_DECISION == "EMAIL_DECISION"
ENTERING_EMAIL == "ENTERING_EMAIL"
CONFIRMING == "CONFIRMING"

\* dict operations on context.user_data (the keys present are its DOMAIN)
EmptyDict == [k \in {} |-> 0]
Has(d, k) == k \in DOMAIN d
Get(d, k, default) == IF k \in DOMAIN d THEN d[k] ELSE default
Set(d, k, v) == [x \in DOMAIN d \cup {k} |-> IF x = k THEN v ELSE d[x]]

\* Texts typed by the user are sequences of characters; None where a text is
\* expected is the empty one (both are falsy, and no text stored is empty).
None == << >>
Whitespace == {" ", "\t", "\n"}
RECURSIVE LStrip(_)
LStrip(s) == IF s # << >> /\ s[1] \in Whitespace THEN LStrip(Tail(s)) ELSE s
RECURSIVE RStrip(_)
RStrip(s) ==
    IF s # << >> /\ s[Len(s)] \in Whitespace THEN RStrip(SubSeq(s, 1, Len(s) - 1)) ELSE s
\* text.strip()
Strip(s) == RStrip(LStrip(s))
\* ch in s
Contains(s, ch) == \E i \in 1 .. Len(s) : s[i] = ch
\* s.split(ch)[-1]
AfterLast(s, ch) ==
    IF ~Contains(s, ch) THEN s
    ELSE LET i == CHOOSE j \in 1 .. Len(s) :
                      s[j] = ch /\ \A k \in (j + 1) .. Len(s) : s[k] # ch
         IN SubSeq(s, i + 1, Len(s))
Repeat(ch, n) == [i \in 1 .. n |-> ch]

\* Callback payloads and command arguments are sequences of tokens, ":" being
\* a token of its own; s.split(":", maxsplit) and "".join.
RECURSIVE JoinTokens(_)
JoinTokens(s) == IF s = << >> THEN "" ELSE s[1] \o JoinTokens(Tail(s))

RECURSIVE SplitTokens(_, _)
SplitTokens(s, maxsplit) ==
    IF maxsplit = 0 \/ \A i \in 1 .. Len(s) : s[i] # ":"
    THEN << JoinTokens(s) >>
    ELSE LET i == CHOOSE j \in 1 .. Len(s) :
                      s[j] = ":" /\ \A k \in 1 .. (j - 1) : s[k] # ":"
         IN << JoinTokens(SubSeq(s, 1, i - 1)) >>
                \o SplitTokens(SubSeq(s, i + 1, Len(s)), maxsplit - 1)

\* int(text): the number whose decimal form the text is, or ValueError
Numbers == (0 .. 200) \cup {UserId(p) : p \in People}
\* The texts int() takes, with their values: decimal digits, with leading
\* zeros, a sign, and whitespace around them
IntTexts ==
    {<< pre \o ToString(n) \o post, n >> :
        pre \in {"", " ", "+", "0"}, post \in {"", " "}, n \in Numbers}
        \cup {<< "-" \o ToString(n), 0 - n >> : n \in Numbers}
IntValue == [t \in {p[1] : p \in IntTexts} |-> (CHOOSE p \in IntTexts : p[1] = t)[2]]
IsInt(text) == text \in DOMAIN IntValue
ParseInt(text) == IntValue[text]

\* TimeSlot.time, an ISO 8601 datetime with offset, e.g.
\* "2026-01-02T10:00:00.000+03:00", as tokens and as text
SlotTime(day, hour, off) == [day |-> day, hour |-> hour, off |-> off]
TimeIsoTokens(t) ==
    << DateStr(t.day) \o "T" \o TwoDigits(t.hour), ":", "00", ":",
       "00.000+" \o TwoDigits(t.off), ":", "00" >>
TimeIso(t) == JoinTokens(TimeIsoTokens(t))

\* The payloads of the buttons the conversation builds
CbTz(tz) == << "tz", ":", tz >>
CbDuration(minutes) == << "duration", ":", ToString(minutes) >>
CbSlot(day, t) == << "slot", ":", DateStr(day), ":" >> \o TimeIsoTokens(t)
CbDates(offset_days) == << "dates", ":", ToString(offset_days) >>
CbChangeTz == << "change_tz" >>
CbCancel == << "cancel" >>
CbNoop == << "noop" >>
CbConfirm == << "confirm" >>
CbEmailYes == << "email_yes" >>
CbEmailNo == << "email_no" >>

\* CallbackQueryHandler(pattern="^<prefix>:")
HasPrefix(data, prefix) == Len(data) >= 2 /\ data[1] = prefix /\ data[2] = ":"

\* Settings.get_event_type_id(duration_minutes). An id that is not set is
\* NoId (None; falsy, as the code's `or` wants it), and so is the ValueError.
NoId == 0

\* get_event_type_id, were it to fall back on whatever id is configured
get_event_type_id_any(duration_minutes) ==
    LET specific == IF duration_minutes = 30 THEN settings.calcom_event_type_id_30
                    ELSE IF duration_minutes = 60 THEN settings.calcom_event_type_id_60
                    ELSE NoId
    IN IF specific # NoId THEN specific
       ELSE IF settings.calcom_event_type_id # NoId THEN settings.calcom_event_type_id
       ELSE IF settings.calcom_event_type_id_30 # NoId
       THEN settings.calcom_event_type_id_30
       ELSE settings.calcom_event_type_id_60

get_event_type_id(duration_minutes) ==
    LET specific == IF duration_minutes = 30 THEN settings.calcom_event_type_id_30
                    ELSE IF duration_minutes = 60 THEN settings.calcom_event_type_id_60
                    ELSE NoId
    IN IF specific # NoId THEN specific ELSE settings.calcom_event_type_id

\* date.today(), as a day number
Today == 1

\* AvailabilityResponse.slots of the upstream's answer: date -> list of slots,
\* neither sorted. The first window has two slots in Moscow time, one left at
\* version 1, and one in Omsk time; the next window has one, gone at version 1.
SlotsOf(data) ==
    LET d == data.args.start_date + 1
        off == UtcOffset(data.args.timezone)
        moscow == data.args.timezone = "Europe/Moscow"
    IN IF data.args.start_date = Today
       THEN IF moscow /\ data.ver = 0
            THEN (d :> << SlotTime(d, 11, off), SlotTime(d, 10, off) >>)
                     @@ ((d + 1) :> << >>)
            ELSE IF moscow /\ data.ver = 1 THEN (d :> << SlotTime(d, 11, off) >>)
            ELSE IF ~moscow /\ data.ver <= 1 THEN (d :> << SlotTime(d, 10, off) >>)
            ELSE (d :> << >>)
       ELSE IF moscow /\ data.ver = 0 THEN (d :> << SlotTime(d, 10, off) >>)
            ELSE (d :> << >>)

\* Every slot time the upstream ever offers
SlotTimes ==
    {SlotTime(d, h, UtcOffset(tz)) :
        d \in (Today + 1) .. (Today + MaxOffsetDays + 2), h \in {10, 11}, tz \in Timezones}

\* datetime.fromisoformat(time_iso)
FromIso(time_iso) == CHOOSE t \in SlotTimes : TimeIso(t) = time_iso

\* slot_to_utc(time_iso): dt.astimezone(timezone.utc).strftime("%Y-%m-%dT%H:%M:%SZ")
slot_to_utc(time_iso) ==
    LET dt == FromIso(time_iso)
    IN DateStr(dt.day) \o "T" \o TwoDigits(dt.hour - dt.off) \o ":00:00Z"

\* sorted(xs)[:n] for a set of numbers, as a sequence
RECURSIVE SortedSeq(_)
SortedSeq(S) ==
    IF S = {} THEN << >>
    ELSE LET m == CHOOSE x \in S : \A y \in S : x <= y
         IN << m >> \o SortedSeq(S \ {m})
Take(s, n) == SubSeq(s, 1, IF Len(s) < n THEN Len(s) ELSE n)

\* sorted(time_slots, key=lambda slot: slot.time): ISO texts of one date and
\* one offset order as their hours do
RECURSIVE SortedSlots(_)
SortedSlots(ts) ==
    IF ts = << >> THEN << >>
    ELSE LET i == CHOOSE j \in 1 .. Len(ts) :
                      \A k \in 1 .. Len(ts) :
                          ts[j].hour < ts[k].hour \/ (ts[j].hour = ts[k].hour /\ j <= k)
         IN << ts[i] >> \o SortedSlots(SubSeq(ts, 1, i - 1) \o SubSeq(ts, i + 1, Len(ts)))

\* No availability response at hand
NoSnapshot == [d \in {} |-> << >>]

\* build_availability_keyboard: the rows of buttons (their payloads). The time
\* buttons of a day go three to a row.
RECURSIVE Rows3(_)
Rows3(time_buttons) ==
    IF time_buttons = << >> THEN << >>
    ELSE IF Len(time_buttons) <= 3 THEN << time_buttons >>
    ELSE << SubSeq(time_buttons, 1, 3) >>
             \o Rows3(SubSeq(time_buttons, 4, Len(time_buttons)))

\* The rows of one date, were the slots taken in the order of the response
DayRowsUnsorted(slots, d) ==
    IF slots[d] = << >> THEN << >>
    ELSE LET sorted_time_slots == Take(slots[d], 6)
         IN << << CbNoop >> >>
                \o Rows3([j \in 1 .. Len(sorted_time_slots) |->
                              CbSlot(d, sorted_time_slots[j])])

\* The rows of one date: none for a date without slots, else the header and
\* the first six slots by time
DayRows(slots, d) ==
    IF slots[d] = << >> THEN << >>
    ELSE LET sorted_time_slots == Take(SortedSlots(slots[d]), 6)
         IN << << CbNoop >> >>
                \o Rows3([j \in 1 .. Len(sorted_time_slots) |->
                              CbSlot(d, sorted_time_slots[j])])

RECURSIVE DaysRows(_, _)
DaysRows(slots, days) ==
    IF days = << >> THEN << >>
    ELSE DayRows(slots, days[1]) \o DaysRows(slots, Tail(days))

keyboard_rows(slots, offset_days) ==
    DaysRows(slots, Take(SortedSeq(DOMAIN slots), 5))
        \o << (IF offset_days > 0 THEN << CbDates(offset_days - 5) >> ELSE << >>)
                  \o << CbDates(offset_days + 5) >> >>
        \o << << CbChangeTz >>, << CbCancel >> >>

\* The payloads of the buttons of a keyboard (the set of them)
Buttons(rows) == {rows[i][j] : <<i, j>> \in {<<i, j>> \in (1 .. Len(rows)) \X (1 .. 3) : j <= Len(rows[i])}}
build_availability_keyboard(slots, offset_days) == Buttons(keyboard_rows(slots, offset_days))

\* build_timezone_keyboard, build_duration_keyboard, _confirmation_keyboard
build_timezone_keyboard == {CbTz(tz) : tz \in Timezones} \cup {CbCancel}
build_duration_keyboard == {CbDuration(m) : m \in DURATION_OPTIONS} \cup {CbCancel}
confirmation_keyboard == {CbConfirm, CbCancel}

\* A message of the bot: which text, and the payloads of its buttons
Message(text, buttons) == [text |-> text, buttons |-> buttons]
NoMessage == Message("", {})

(***************************************************************************)
(* The booking conversation: the handlers. python-telegram-bot runs one    *)
(* handler to completion per update (concurrent_updates is off), so every  *)
(* handler is one step, the client call it awaits included.                *)
(***************************************************************************)
\* The configurations the bot is started with: the default id only, or the
\* id of the 30-minute event only
SettingsChoices ==
    {[calcom_event_type_id |-> 101, calcom_event_type_id_30 |-> NoId,
      calcom_event_type_id_60 |-> NoId],
     [calcom_event_type_id |-> NoId, calcom_event_type_id_30 |-> 101,
      calcom_event_type_id_60 |-> NoId]}

\* What one call of the request helper ends in, as far as the handlers can
\* tell; conflict: the provider answered every attempt made with HTTP 409.
HelperReplies ==
    {[ok |-> request_with_retry(rs).ok,
      status_code |-> request_with_retry(rs).status_code,
      conflict |-> \A i \in 1 .. request_with_retry(rs).calls :
                       ~rs[i].exc /\ rs[i].status = 409] :
        rs \in Scripts}

\* The same, as far as get_availability's callers can tell
FetchReplies == {[ok |-> r.ok] : r \in HelperReplies}

\* What Telegram does with the edits and replies of one handler run: shows
\* them, refuses the edits as "message can't be edited" (_safe_edit_message_text
\* then sends the text as a new message), or fails them with another error.
Telegram == {"ok", "not_editable", "error"}

\* CalComClient.get_availability run to completion: cache is the cache after it
get_availability(a, r) ==
    LET cache_key == CacheKey(a) IN
    IF cache_key \in DOMAIN cache /\ IsFresh(cache[cache_key].cached_at, now)
    THEN [ok |-> TRUE, data |-> cache[cache_key].data, cache |-> cache]
    ELSE IF r.ok
    THEN [ok |-> TRUE, data |-> Upstream(a, upver),
          cache |-> CachePut(cache, cache_key, now, Upstream(a, upver))]
    ELSE [ok |-> FALSE, data |-> NoData, cache |-> cache]

\* BookingRequest(eventTypeId, start, attendee, metadata)
BookingRequest(eventTypeId, start, name, email, timeZone, telegram_user_id) ==
    [eventTypeId |-> eventTypeId, start |-> start, name |-> name, email |-> email,
     timeZone |-> timeZone, telegram_user_id |-> telegram_user_id]
\* The request as create_booking got it, with how the call went (ok, conflict)
\* and whether the user was whitelisted then
Sent(req, ok, conflict, whitelisted) ==
    [eventTypeId |-> req.eventTypeId, start |-> req.start, name |-> req.name,
     email |-> req.email, timeZone |-> req.timeZone,
     telegram_user_id |-> req.telegram_user_id, ok |-> ok, conflict |-> conflict,
     whitelisted |-> whitelisted]
NoRequest == [eventTypeId |-> NoId, start |-> "", name |-> None, email |-> None,
              timeZone |-> "", telegram_user_id |-> "", ok |-> FALSE,
              conflict |-> FALSE, whitelisted |-> FALSE]

\* BookingResponse: the fields of the model
BookingResponse == {"id", "uid", "title", "startTime", "endTime", "status"}

\* _format_duration(booking) reads booking.start and booking.end
format_duration_raises == ~({"start", "end"} \subseteq BookingResponse)

\* The next value of the upstream's version when a booking is made
NextVer(v) == IF v < MaxUpstreamVer THEN v + 1 ELSE v

\* One handler run for user u: the state it returns (the old one when it
\* raises), user_data, the message shown, the cache, the upstream, the request.
Step(u, state, ud, msg, c, v, req) ==
    /\ conv' = [conv EXCEPT ![u] = state]
    /\ user_data' = [user_data EXCEPT ![u] = ud]
    /\ shown' = [shown EXCEPT ![u] = msg]
    /\ cache' = c
    /\ upver' = v
    /\ requested' = [requested EXCEPT ![u] = req]
    /\ UNCHANGED <<responses, result, now, inflight, last, fetched, cleared,
                   settings, whitelist, access_requests, limits, bookings,
                   snapshot, keyboard, returned, sent,
                   unfetched>>

\* A handler run that changes user_data and what is shown at most
Stay(u, ud, msg) == Step(u, conv[u], ud, msg, cache, upver, NoRequest)
Goto(u, state, ud, msg) == Step(u, state, ud, msg, cache, upver, NoRequest)

\* _show_availability after its "loading" edit went through
show_availability(ud, offset_days, r) ==
    LET duration == Get(ud, "duration", 30)
        event_type_id == get_event_type_id(duration)
        a == Args(event_type_id, Today + offset_days, Today + offset_days + 14,
                  ud["timezone"])
        availability == get_availability(a, r)
        slots == SlotsOf(availability.data)
    IN IF ~Has(ud, "timezone") \/ event_type_id = NoId
       THEN [raised |-> TRUE, msg |-> Message("loading", {}), cache |-> cache]
       ELSE IF ~availability.ok
       THEN [raised |-> FALSE, cache |-> availability.cache,
             msg |-> Message("load_failed", {CbTz(ud["timezone"]), CbCancel})]
       ELSE IF \A d \in DOMAIN slots : slots[d] = << >>
       THEN [raised |-> FALSE, cache |-> availability.cache,
             msg |-> Message("no_slots", {CbChangeTz, CbCancel})]
       ELSE [raised |-> FALSE, cache |-> availability.cache,
             msg |-> Message("availability",
                             build_availability_keyboard(slots, offset_days))]

\* _show_availability, were it to return the state it was called in when the
\* fetch fails or finds no slot
ShowAvailabilityFailureStays(u, ud, offset_days, r, tg) ==
    IF tg = "error" THEN Stay(u, ud, shown[u])
    ELSE LET sa == show_availability(ud, offset_days, r)
         IN Step(u, IF sa.raised \/ sa.msg.text \in {"no_slots", "load_failed"}
                    THEN conv[u] ELSE VIEWING_AVAILABILITY,
                 ud, sa.msg, sa.cache, upver, NoRequest)

\* The tail of a handler that ends in _show_availability
ShowAvailability(u, ud, offset_days, r, tg) ==
    IF tg = "error" THEN Stay(u, ud, shown[u])
    ELSE LET sa == show_availability(ud, offset_days, r)
         IN Step(u, IF sa.raised THEN conv[u] ELSE VIEWING_AVAILABILITY, ud,
                 sa.msg, sa.cache, upver, NoRequest)

\* Payloads "duration:..." that are no button of the picker: no number, no
\* configured duration, nothing after the colon, more than a number
BadDurationPayloads ==
    {<< "duration", ":", "45" >>, << "duration", ":", "long" >>, << "duration", ":" >>,
     << "duration", ":", "30", ":", "x" >>}

\* Buttons of messages the conversation replaced, still on the user's screen,
\* and payloads the bot never made (one of them a 30 that int() still takes)
StaleButtons ==
    {CbTz("Europe/Moscow"), CbCancel, CbConfirm, << "duration", ":", " 30" >>}
        \cup BadDurationPayloads

\* The buttons user u can press
Pressable(u) == shown[u].buttons \cup StaleButtons

\* book_command
BookCommand(u, tg) ==
    /\ conv[u] = END
    /\ IF tg = "error" THEN Stay(u, user_data[u], shown[u])
       ELSE Goto(u, SELECTING_TIMEZONE, user_data[u],
                 Message("choose_timezone", build_timezone_keyboard))

\* select_timezone and _handle_duration_selection
NoLimit == 0

\* select_timezone, were it to show the duration picker to everyone
SelectTimezoneIgnoresLimit(u, data, r, tg) ==
    LET timezone_id == SplitTokens(data, 1)[2]
        ud1 == Set(Set(user_data[u], "timezone", timezone_id), "offset_days", 0)
    IN
    /\ conv[u] \in {SELECTING_TIMEZONE, VIEWING_AVAILABILITY, CONFIRMING}
    /\ HasPrefix(data, "tz")
    /\ IF tg = "error" THEN Stay(u, ud1, shown[u])
       ELSE Goto(u, SELECTING_DURATION, ud1,
                 Message("choose_duration", build_duration_keyboard))

SelectTimezone(u, data, r, tg) ==
    LET timezone_id == SplitTokens(data, 1)[2]
        ud1 == Set(Set(user_data[u], "timezone", timezone_id), "offset_days", 0)
        max_duration == Get(limits, UserId(u), NoLimit)
    IN
    /\ conv[u] \in {SELECTING_TIMEZONE, VIEWING_AVAILABILITY, CONFIRMING}
    /\ HasPrefix(data, "tz")
    /\ IF max_duration # NoLimit
       THEN ShowAvailability(u, Set(ud1, "duration", max_duration), 0, r, tg)
       ELSE IF tg = "error" THEN Stay(u, ud1, shown[u])
       ELSE Goto(u, SELECTING_DURATION, ud1,
                 Message("choose_duration", build_duration_keyboard))

\* select_duration, were it to take any number for a duration
SelectDurationUnchecked(u, data, r, tg) ==
    LET text == SplitTokens(data, 1)[2] IN
    /\ conv[u] = SELECTING_DURATION
    /\ HasPrefix(data, "duration")
    /\ IF ~IsInt(text) THEN Stay(u, user_data[u], shown[u])
       ELSE ShowAvailability(u, Set(user_data[u], "duration", ParseInt(text)), 0, r, tg)

\* select_duration
SelectDuration(u, data, r, tg) ==
    LET text == SplitTokens(data, 1)[2] IN
    /\ conv[u] = SELECTING_DURATION
    /\ HasPrefix(data, "duration")
    /\ IF ~IsInt(text) THEN Stay(u, user_data[u], shown[u])
       ELSE IF ParseInt(text) \notin DURATION_OPTIONS THEN Stay(u, user_data[u], shown[u])
       ELSE ShowAvailability(u, Set(user_data[u], "duration", ParseInt(text)), 0, r, tg)

\* change_timezone
ChangeTimezone(u, data, tg) ==
    /\ conv[u] = VIEWING_AVAILABILITY
    /\ data = CbChangeTz
    /\ IF tg = "error" THEN Stay(u, user_data[u], shown[u])
       ELSE Goto(u, SELECTING_TIMEZONE, user_data[u],
                 Message("choose_timezone", build_timezone_keyboard))

\* load_more_dates, were it to store the offset and fetch the first window
LoadMoreDatesFirstWindow(u, data, r, tg) ==
    LET text == SplitTokens(data, Len(data))[2] IN
    /\ conv[u] = VIEWING_AVAILABILITY
    /\ HasPrefix(data, "dates")
    /\ IsInt(text) => ParseInt(text) <= MaxOffsetDays
    /\ IF ~IsInt(text) THEN Stay(u, user_data[u], shown[u])
       ELSE ShowAvailability(u, Set(user_data[u], "offset_days", ParseInt(text)),
                             0, r, tg)

\* load_more_dates
LoadMoreDates(u, data, r, tg) ==
    LET text == SplitTokens(data, Len(data))[2] IN
    /\ conv[u] = VIEWING_AVAILABILITY
    /\ HasPrefix(data, "dates")
    /\ IsInt(text) => ParseInt(text) <= MaxOffsetDays
    /\ IF ~IsInt(text) THEN Stay(u, user_data[u], shown[u])
       ELSE ShowAvailability(u, Set(user_data[u], "offset_days", ParseInt(text)),
                             ParseInt(text), r, tg)

\* noop
Noop(u, data) ==
    /\ conv[u] = VIEWING_AVAILABILITY
    /\ data = CbNoop
    /\ Stay(u, user_data[u], shown[u])

\* select_slot
SelectSlot(u, data, tg) ==
    LET parts == SplitTokens(data, 2)
        ud1 == Set(Set(user_data[u], "selected_date", parts[2]),
                   "selected_time", parts[3])
    IN
    /\ conv[u] = VIEWING_AVAILABILITY
    /\ HasPrefix(data, "slot")
    /\ IF tg = "error" THEN Stay(u, ud1, shown[u])
       ELSE Goto(u, ENTERING_NAME, ud1, Message("enter_name", {}))

\* The texts the user types
NameInputs ==
    {<< >>, << " ", " " >>, Repeat("a", MAX_NAME_LENGTH + 1),
     << " " >> \o Repeat("a", MAX_NAME_LENGTH) \o << " " >>}
EmailInputs ==
    {<< "a", "b" >>, << "a", ".", "b", "@", "c" >>, << " ", "a", "@", "b", ".", "c" >>}

\* enter_name, were it to ask for the email without storing the name
EnterNameForgets(u, text, tg) ==
    LET name == Strip(text) IN
    /\ conv[u] = ENTERING_NAME
    /\ IF name = << >>
       THEN Stay(u, user_data[u],
                 IF tg = "error" THEN shown[u] ELSE Message("name_empty", {}))
       ELSE IF Len(name) > MAX_NAME_LENGTH
       THEN Stay(u, user_data[u],
                 IF tg = "error" THEN shown[u] ELSE Message("name_too_long", {}))
       ELSE IF tg = "error" THEN Stay(u, user_data[u], shown[u])
       ELSE Goto(u, EMAIL_DECISION, user_data[u],
                 Message("email_question", {CbEmailYes, CbEmailNo}))

\* enter_name, were it to turn away a name of exactly MAX_NAME_LENGTH characters
EnterNameOffByOne(u, text, tg) ==
    LET name == Strip(text) IN
    /\ conv[u] = ENTERING_NAME
    /\ IF name = << >>
       THEN Stay(u, user_data[u],
                 IF tg = "error" THEN shown[u] ELSE Message("name_empty", {}))
       ELSE IF Len(name) >= MAX_NAME_LENGTH
       THEN Stay(u, user_data[u],
                 IF tg = "error" THEN shown[u] ELSE Message("name_too_long", {}))
       ELSE IF tg = "error" THEN Stay(u, Set(user_data[u], "name", name), shown[u])
       ELSE Goto(u, EMAIL_DECISION, Set(user_data[u], "name", name),
                 Message("email_question", {CbEmailYes, CbEmailNo}))

\* enter_name
EnterName(u, text, tg) ==
    LET name == Strip(text) IN
    /\ conv[u] = ENTERING_NAME
    /\ IF name = << >>
       THEN Stay(u, user_data[u],
                 IF tg = "error" THEN shown[u] ELSE Message("name_empty", {}))
       ELSE IF Len(name) > MAX_NAME_LENGTH
       THEN Stay(u, user_data[u],
                 IF tg = "error" THEN shown[u] ELSE Message("name_too_long", {}))
       ELSE IF tg = "error" THEN Stay(u, Set(user_data[u], "name", name), shown[u])
       ELSE Goto(u, EMAIL_DECISION, Set(user_data[u], "name", name),
                 Message("email_question", {CbEmailYes, CbEmailNo}))

\* _build_confirmation_text reads these keys of user_data (KeyError otherwise)
confirmation_text_raises(ud) ==
    ~({"selected_date", "selected_time", "timezone", "name"} \subseteq DOMAIN ud)

\* email_decision and _show_confirmation_edit
EmailDecision(u, data, tg) ==
    LET ud1 == Set(user_data[u], "email", None) IN
    /\ conv[u] = EMAIL_DECISION
    /\ data \in {CbEmailYes, CbEmailNo}
    /\ IF data = CbEmailYes
       THEN IF tg = "error" THEN Stay(u, user_data[u], shown[u])
            ELSE Goto(u, ENTERING_EMAIL, user_data[u], Message("enter_email", {}))
       ELSE IF confirmation_text_raises(ud1) \/ tg = "error"
            THEN Stay(u, ud1, shown[u])
            ELSE Goto(u, CONFIRMING, ud1, Message("confirm", confirmation_keyboard))

\* enter_email, were it to look for the dot anywhere in the text
EnterEmailDotAnywhere(u, text, tg) ==
    LET email == Strip(text)
        ud1 == Set(user_data[u], "email", email)
    IN
    /\ conv[u] = ENTERING_EMAIL
    /\ IF ~Contains(email, "@") \/ ~Contains(email, ".")
       THEN Stay(u, user_data[u],
                 IF tg = "error" THEN shown[u] ELSE Message("email_invalid", {}))
       ELSE IF confirmation_text_raises(ud1) \/ tg = "error"
            THEN Stay(u, ud1, shown[u])
            ELSE Goto(u, CONFIRMING, ud1, Message("confirm", confirmation_keyboard))

\* enter_email and _show_confirmation_message
EnterEmail(u, text, tg) ==
    LET email == Strip(text)
        ud1 == Set(user_data[u], "email", email)
    IN
    /\ conv[u] = ENTERING_EMAIL
    /\ IF ~Contains(email, "@") \/ ~Contains(AfterLast(email, "@"), ".")
       THEN Stay(u, user_data[u],
                 IF tg = "error" THEN shown[u] ELSE Message("email_invalid", {}))
       ELSE IF confirmation_text_raises(ud1) \/ tg = "error"
            THEN Stay(u, ud1, shown[u])
            ELSE Goto(u, CONFIRMING, ud1, Message("confirm", confirmation_keyboard))

\* confirm_booking, were it to stay in CONFIRMING when create_booking fails
ConfirmBookingFailStays(u, data, r, tg) ==
    LET ud == user_data[u]
        email == IF Get(ud, "email", None) # None THEN ud["email"]
                 ELSE << "telegram-", ToString(UserId(u)), "@telecalbot.local" >>
        duration == Get(ud, "duration", 30)
        event_type_id == get_event_type_id(duration)
        req == Sent(BookingRequest(event_type_id, slot_to_utc(ud["selected_time"]),
                                   ud["name"], email, ud["timezone"],
                                   ToString(UserId(u))),
                    r.ok, r.conflict, UserId(u) \in whitelist)
    IN
    /\ conv[u] = CONFIRMING
    /\ data = CbConfirm
    /\ IF tg = "error" THEN Stay(u, ud, shown[u])
       ELSE IF event_type_id = NoId
               \/ ~({"selected_time", "name", "timezone"} \subseteq DOMAIN ud)
       THEN Stay(u, ud, Message("creating", {}))
       ELSE IF r.ok
       THEN \* create_booking cleared the cache and returned the booking
            IF ~Has(ud, "selected_date") \/ format_duration_raises
            THEN Step(u, conv[u], ud, Message("creating", {}),
                      CacheClear(cache), NextVer(upver), req)
            ELSE Step(u, END, ud, Message("done", {}),
                      CacheClear(cache), NextVer(upver), req)
       ELSE Step(u, CONFIRMING, ud,
                 Message(IF r.status_code = 409 THEN "slot_taken" ELSE "generic_error",
                         {CbTz(ud["timezone"]), CbCancel}),
                 cache, upver, req)

\* confirm_booking, were it to send the email of user_data as it is
ConfirmBookingEmailAsIs(u, data, r, tg) ==
    LET ud == user_data[u]
        email == Get(ud, "email", None)
        duration == Get(ud, "duration", 30)
        event_type_id == get_event_type_id(duration)
        req == Sent(BookingRequest(event_type_id, slot_to_utc(ud["selected_time"]),
                                   ud["name"], email, ud["timezone"],
                                   ToString(UserId(u))),
                    r.ok, r.conflict, UserId(u) \in whitelist)
    IN
    /\ conv[u] = CONFIRMING
    /\ data = CbConfirm
    /\ IF tg = "error" THEN Stay(u, ud, shown[u])
       ELSE IF event_type_id = NoId
               \/ ~({"selected_time", "name", "timezone"} \subseteq DOMAIN ud)
       THEN Stay(u, ud, Message("creating", {}))
       ELSE IF r.ok
       THEN \* create_booking cleared the cache and returned the booking
            IF ~Has(ud, "selected_date") \/ format_duration_raises
            THEN Step(u, conv[u], ud, Message("creating", {}),
                      CacheClear(cache), NextVer(upver), req)
            ELSE Step(u, END, ud, Message("done", {}),
                      CacheClear(cache), NextVer(upver), req)
       ELSE Step(u, VIEWING_AVAILABILITY, ud,
                 Message(IF r.status_code = 409 THEN "slot_taken" ELSE "generic_error",
                         {CbTz(ud["timezone"]), CbCancel}),
                 cache, upver, req)

\* confirm_booking
ConfirmBooking(u, data, r, tg) ==
    LET ud == user_data[u]
        email == IF Get(ud, "email", None) \notin {None, << >>} THEN ud["email"]
                 ELSE << "telegram-", ToString(UserId(u)), "@telecalbot.local" >>
        duration == Get(ud, "duration", 30)
        event_type_id == get_event_type_id(duration)
        req == Sent(BookingRequest(event_type_id, slot_to_utc(ud["selected_time"]),
                                   ud["name"], email, ud["timezone"],
                                   ToString(UserId(u))),
                    r.ok, r.conflict, UserId(u) \in whitelist)
    IN
    /\ conv[u] = CONFIRMING
    /\ data = CbConfirm
    /\ IF tg = "error" THEN Stay(u, ud, shown[u])
       ELSE IF event_type_id = NoId
               \/ ~({"selected_time", "name", "timezone"} \subseteq DOMAIN ud)
       THEN Stay(u, ud, Message("creating", {}))
       ELSE IF r.ok
       THEN \* create_booking cleared the cache and returned the booking
            IF ~Has(ud, "selected_date") \/ format_duration_raises
            THEN Step(u, conv[u], ud, Message("creating", {}),
                      CacheClear(cache), NextVer(upver), req)
            ELSE Step(u, END, ud, Message("done", {}),
                      CacheClear(cache), NextVer(upver), req)
       ELSE Step(u, VIEWING_AVAILABILITY, ud,
                 Message(IF r.status_code = 409 THEN "slot_taken" ELSE "generic_error",
                         {CbTz(ud["timezone"]), CbCancel}),
                 cache, upver, req)

\* cancel: the "cancel" button of the states that take it, or the /cancel command
CmdCancel == << "/cancel" >>

\* cancel, were it to end the conversation without clearing user_data
CancelKeepsData(u, data, tg) ==
    /\ \/ /\ data = CbCancel
          /\ conv[u] \in {SELECTING_TIMEZONE, SELECTING_DURATION, VIEWING_AVAILABILITY,
                          EMAIL_DECISION, CONFIRMING}
       \/ /\ data = CmdCancel
          /\ conv[u] # END
    /\ IF tg = "error" THEN Stay(u, user_data[u], shown[u])
       ELSE Goto(u, END, user_data[u], Message("cancelled", {}))

Cancel(u, data, tg) ==
    /\ \/ /\ data = CbCancel
          /\ conv[u] \in {SELECTING_TIMEZONE, SELECTING_DURATION, VIEWING_AVAILABILITY,
                          EMAIL_DECISION, CONFIRMING}
       \/ /\ data = CmdCancel
          /\ conv[u] # END
    /\ IF tg = "error" THEN Stay(u, user_data[u], shown[u])
       ELSE Goto(u, END, EmptyDict, Message("cancelled", {}))

\* booking_timeout, were it to clear user_data after the notice, not in a
\* finally clause
BookingTimeoutNoFinally(u, tg, ends) ==
    /\ conv[u] # END
    /\ IF tg = "error"
       THEN Goto(u, IF ends THEN END ELSE conv[u], user_data[u], shown[u])
       ELSE Goto(u, END, EmptyDict, Message("timeout", {}))

\* booking_timeout, run by the ConversationHandler's timeout job after
\* conversation_timeout without an update for the conversation (the model
\* lets it fire in any state but END). Its finally clause clears user_data
\* whatever happens to the notice. When the notice fails the handler raises
\* out of the library's timeout job, which may or may not have ended the
\* conversation by then: ends is either.
BookingTimeout(u, tg, ends) ==
    /\ conv[u] # END
    /\ IF tg = "error"
       THEN Goto(u, IF ends THEN END ELSE conv[u], EmptyDict, shown[u])
       ELSE Goto(u, END, EmptyDict, Message("timeout", {}))

(***************************************************************************)
(* Access control and duration limits: /start and the admin's commands.    *)
(***************************************************************************)
\* context.args of a command
IdArgs == {<< >>, << "abc" >>} \cup {<< ToString(UserId(u)) >> : u \in Users}
LimitArgs ==
    {<< ToString(UserId(u)) >> : u \in Users}
        \cup {<< ToString(UserId(u)), m >> : u \in Users, m \in {"30", "60", "45", "x"}}

\* A message the bot sends: to which chat, which text, and the user it is about
Msg(to, text, about) == [to |-> to, text |-> text, about |-> about]

\* Changes of the tables only, with the service call the handler made last
\* (NoReturn if none) and the messages it sent: the conversation and the
\* client stay as they are
Tables(wl, ar, lim, ret, msgs) ==
    /\ whitelist' = wl
    /\ access_requests' = ar
    /\ limits' = lim
    /\ returned' = ret
    /\ sent' = msgs
    /\ UNCHANGED <<responses, result, cache, now, upver, inflight, last, fetched,
                   cleared, settings, conv, user_data, shown, requested, bookings,
                   snapshot, keyboard, unfetched>>

\* Database.execute_write returns cursor.lastrowid of a connection opened for
\* the one statement: the rowid of the row an INSERT stored, and 0 after an
\* INSERT OR IGNORE that was ignored, an UPDATE or a DELETE
lastrowid_of_insert(rowid, stored) == IF stored THEN rowid ELSE 0
lastrowid_of_update == 0

\* create_access_request, were its statement INSERT OR REPLACE
create_access_request_replaces(ar, telegram_id) ==
    LET rowcount == lastrowid_of_insert(telegram_id, TRUE)
    IN [value |-> rowcount > 0, access_requests |-> Set(ar, telegram_id, "pending")]

\* WhitelistService.create_access_request: INSERT OR IGNORE with status
\* 'pending'; telegram_id is the table's INTEGER PRIMARY KEY, that is its rowid
create_access_request(ar, telegram_id) ==
    LET stored == ~Has(ar, telegram_id)
        rowcount == lastrowid_of_insert(telegram_id, stored)
    IN [value |-> rowcount > 0,
        access_requests |-> IF stored THEN Set(ar, telegram_id, "pending") ELSE ar]

\* WhitelistService.get_pending_requests: the ids of the requests it lists
get_pending_requests(ar) == {id \in DOMAIN ar : ar[id] = "pending"}

\* approve_request, were it to whitelist the user and leave the request pending
approve_request_keeps_status(wl, ar, telegram_id) ==
    IF Get(ar, telegram_id, "") # "pending"
    THEN [value |-> FALSE, whitelist |-> wl, access_requests |-> ar]
    ELSE [value |-> TRUE, whitelist |-> wl \cup {telegram_id}, access_requests |-> ar]

\* WhitelistService.approve_request
approve_request(wl, ar, telegram_id) ==
    IF Get(ar, telegram_id, "") # "pending"
    THEN [value |-> FALSE, whitelist |-> wl, access_requests |-> ar]
    ELSE [value |-> TRUE, whitelist |-> wl \cup {telegram_id},
          access_requests |-> Set(ar, telegram_id, "approved")]

\* reject_request, were it to take the user off the whitelist as well
reject_request_unlists(wl, ar, telegram_id) ==
    IF Get(ar, telegram_id, "") # "pending"
    THEN [value |-> FALSE, whitelist |-> wl \ {telegram_id}, access_requests |-> ar]
    ELSE [value |-> TRUE, whitelist |-> wl \ {telegram_id},
          access_requests |-> Set(ar, telegram_id, "rejected")]

\* WhitelistService.reject_request
reject_request(wl, ar, telegram_id) ==
    IF Get(ar, telegram_id, "") # "pending"
    THEN [value |-> FALSE, whitelist |-> wl, access_requests |-> ar]
    ELSE [value |-> TRUE, whitelist |-> wl,
          access_requests |-> Set(ar, telegram_id, "rejected")]

\* start_command, were it to notify the admin of every /start of a stranger
StartCommandAlwaysNotifies(p) ==
    LET chat_id == UserId(p)
        wl == IF p = Admin /\ chat_id \notin whitelist
              THEN whitelist \cup {chat_id} ELSE whitelist
        created == create_access_request(access_requests, chat_id)
    IN IF chat_id \in wl
       THEN Tables(wl, access_requests, limits, NoReturn,
                   {Msg(chat_id, "welcome", chat_id), Msg(chat_id, "help", chat_id)})
       ELSE Tables(wl, created.access_requests, limits,
                   Call("create_access_request", << chat_id >>, created.value),
                   {Msg(UserId(Admin), "new_request", chat_id),
                    Msg(chat_id, "request_sent", chat_id)})

\* start_command: the admin is whitelisted on the spot, a whitelisted user is
\* welcomed, anyone else gets an access request and, if it is a new one, the
\* admin is told of it
StartCommand(p) ==
    LET chat_id == UserId(p)
        wl == IF p = Admin /\ chat_id \notin whitelist
              THEN whitelist \cup {chat_id} ELSE whitelist
        created == create_access_request(access_requests, chat_id)
    IN IF chat_id \in wl
       THEN Tables(wl, access_requests, limits, NoReturn,
                   {Msg(chat_id, "welcome", chat_id), Msg(chat_id, "help", chat_id)})
       ELSE Tables(wl, created.access_requests, limits,
                   Call("create_access_request", << chat_id >>, created.value),
                   (IF created.value THEN {Msg(UserId(Admin), "new_request", chat_id)}
                    ELSE {}) \cup {Msg(chat_id, "request_sent", chat_id)})

\* What a handler wrapped in admin_only does for anyone but the admin
NotAuthorized(p) ==
    Tables(whitelist, access_requests, limits, NoReturn,
           {Msg(UserId(p), "not_authorized", UserId(p))})

\* A handler that changes no table and calls no service method with a result:
\* it only replies to the sender
Reply(p, text) ==
    Tables(whitelist, access_requests, limits, NoReturn,
           {Msg(UserId(p), text, UserId(p))})

\* admin_only, were it to log the attempt and run the handler all the same
admin_only_lets_in(p) == TRUE

\* admin_only(func): whether the wrapper calls func
admin_only(p) == UserId(p) = UserId(Admin)

\* approve_command
ApproveCommand(p, args) ==
    IF ~admin_only(p) THEN NotAuthorized(p)
    ELSE IF args = << >> THEN Reply(p, "usage")
    ELSE IF ~IsInt(args[1]) THEN Reply(p, "invalid_id")
    ELSE LET telegram_id == ParseInt(args[1])
             approved == approve_request(whitelist, access_requests, telegram_id)
         IN IF Get(access_requests, telegram_id, "") # "pending"
            THEN Reply(p, "no_pending_request")
            ELSE Tables(approved.whitelist, approved.access_requests, limits,
                        Call("approve_request", << telegram_id >>, approved.value),
                        IF approved.value
                        THEN {Msg(UserId(p), "approved", telegram_id),
                              Msg(telegram_id, "you_are_approved", telegram_id)}
                        ELSE {Msg(UserId(p), "approve_failed", telegram_id)})

\* reject_command
RejectCommand(p, args) ==
    IF ~admin_only(p) THEN NotAuthorized(p)
    ELSE IF args = << >> THEN Reply(p, "usage")
    ELSE IF ~IsInt(args[1]) THEN Reply(p, "invalid_id")
    ELSE LET telegram_id == ParseInt(args[1])
             rejected == reject_request(whitelist, access_requests, telegram_id)
         IN IF Get(access_requests, telegram_id, "") # "pending"
            THEN Reply(p, "no_pending_request")
            ELSE Tables(rejected.whitelist, rejected.access_requests, limits,
                        Call("reject_request", << telegram_id >>, rejected.value),
                        {Msg(UserId(p), IF rejected.value THEN "rejected"
                                        ELSE "reject_failed", telegram_id)})

\* pending_command
PendingCommand(p) ==
    IF ~admin_only(p) THEN NotAuthorized(p)
    ELSE Reply(p, IF get_pending_requests(access_requests) = {} THEN "no_pending"
                  ELSE "pending_list")

\* setlimit_command with "<telegram_id> <minutes>" and DurationLimitService.set_limit
SetLimitCommand(p, args) ==
    IF ~admin_only(p) THEN NotAuthorized(p)
    ELSE IF Len(args) < 2 THEN Reply(p, "usage")
    ELSE IF ~IsInt(args[1]) \/ ~IsInt(args[2]) THEN Reply(p, "not_numbers")
    ELSE IF ParseInt(args[2]) \notin VALID_DURATIONS THEN Reply(p, "valid_values")
    ELSE Tables(whitelist, access_requests,
                Set(limits, ParseInt(args[1]), ParseInt(args[2])), NoReturn,
                {Msg(UserId(p), "limit_set", ParseInt(args[1]))})

\* removelimit_command with "<telegram_id>" and DurationLimitService.remove_limit,
\* which takes the lastrowid of its DELETE for the number of rows deleted
RemoveLimitCommand(p, args) ==
    IF ~admin_only(p) THEN NotAuthorized(p)
    ELSE IF args = << >> THEN Reply(p, "usage")
    ELSE IF ~IsInt(args[1]) THEN Reply(p, "invalid_id")
    ELSE LET telegram_id == ParseInt(args[1])
             removed == lastrowid_of_update > 0
         IN Tables(whitelist, access_requests,
                   [k \in DOMAIN limits \ {telegram_id} |-> limits[k]],
                   Call("remove_limit", << telegram_id >>, removed),
                   {Msg(UserId(p), IF removed THEN "limit_removed" ELSE "limit_not_found",
                        telegram_id)})

\* limits_command
LimitsCommand(p) ==
    IF ~admin_only(p) THEN NotAuthorized(p)
    ELSE Reply(p, IF DOMAIN limits = {} THEN "no_limits" ELSE "limits_list")

(***************************************************************************)
(* SpecAccess: the people and the admin's commands.                        *)
(***************************************************************************)
InitAccess ==
    /\ responses = << >>
    /\ result = NoResult
    /\ cache = [k \in {} |-> NoData]
    /\ now = 0
    /\ upver = 0
    /\ inflight = [c \in Callers |-> Idle]
    /\ last = NoCall
    /\ fetched = [a \in {} |-> NoData]
    /\ cleared = {}
    /\ settings \in {s \in SettingsChoices : s.calcom_event_type_id # NoId}
    /\ whitelist = {}
    /\ access_requests = EmptyDict
    /\ limits = EmptyDict
    /\ conv = [u \in Bookers |-> END]
    /\ user_data = [u \in Bookers |-> EmptyDict]
    /\ shown = [u \in Bookers |-> NoMessage]
    /\ requested = [u \in Bookers |-> NoRequest]
    /\ bookings = {}
    /\ snapshot = NoSnapshot
    /\ keyboard = << >>
    /\ returned = NoReturn
    /\ sent = {}
    /\ unfetched = {}

NextAccess ==
    \/ \E p \in People : StartCommand(p)
    \/ \E p \in People, args \in IdArgs : ApproveCommand(p, args)
    \/ \E p \in People, args \in IdArgs : RejectCommand(p, args)
    \/ \E p \in People, args \in LimitArgs : SetLimitCommand(p, args)
    \/ \E p \in People, args \in IdArgs : RemoveLimitCommand(p, args)
    \/ \E p \in People : PendingCommand(p)
    \/ \E p \in People : LimitsCommand(p)

SpecAccess == InitAccess /\ [][NextAccess]_vars

(***************************************************************************)
(* SpecWhitelist: the methods of WhitelistService called one after another *)
(* on the tables, as the handlers and the tests call them.                 *)
(***************************************************************************)
\* The telegram ids the methods are called with
TelegramIds == {UserId(p) : p \in People}

InitWhitelist ==
    /\ responses = << >>
    /\ result = NoResult
    /\ cache = [k \in {} |-> NoData]
    /\ now = 0
    /\ upver = 0
    /\ inflight = [c \in Callers |-> Idle]
    /\ last = NoCall
    /\ fetched = [a \in {} |-> NoData]
    /\ cleared = {}
    /\ settings \in {s \in SettingsChoices : s.calcom_event_type_id # NoId}
    /\ whitelist = {}
    /\ access_requests = EmptyDict
    /\ limits = EmptyDict
    /\ conv = [u \in Bookers |-> END]
    /\ user_data = [u \in Bookers |-> EmptyDict]
    /\ shown = [u \in Bookers |-> NoMessage]
    /\ requested = [u \in Bookers |-> NoRequest]
    /\ bookings = {}
    /\ snapshot = NoSnapshot
    /\ keyboard = << >>
    /\ returned = NoReturn
    /\ sent = {}
    /\ unfetched = {}

CreateAccessRequest(telegram_id) ==
    /\ telegram_id \in TelegramIds
    /\ LET created == create_access_request(access_requests, telegram_id)
       IN Tables(whitelist, created.access_requests, limits,
                 Call("create_access_request", << telegram_id >>, created.value), {})

ApproveRequest(telegram_id) ==
    /\ telegram_id \in TelegramIds
    /\ LET approved == approve_request(whitelist, access_requests, telegram_id)
       IN Tables(approved.whitelist, approved.access_requests, limits,
                 Call("approve_request", << telegram_id >>, approved.value), {})

RejectRequest(telegram_id) ==
    /\ telegram_id \in TelegramIds
    /\ LET rejected == reject_request(whitelist, access_requests, telegram_id)
       IN Tables(rejected.whitelist, rejected.access_requests, limits,
                 Call("reject_request", << telegram_id >>, rejected.value), {})

\* WhitelistService.add_to_whitelist and remove_from_whitelist
AddToWhitelist(telegram_id) ==
    /\ telegram_id \in TelegramIds
    /\ Tables(whitelist \cup {telegram_id}, access_requests, limits, NoReturn, {})
RemoveFromWhitelist(telegram_id) ==
    /\ telegram_id \in TelegramIds
    /\ Tables(whitelist \ {telegram_id}, access_requests, limits, NoReturn, {})

NextWhitelist ==
    \/ \E telegram_id \in TelegramIds : CreateAccessRequest(telegram_id)
    \/ \E telegram_id \in TelegramIds : ApproveRequest(telegram_id)
    \/ \E telegram_id \in TelegramIds : RejectRequest(telegram_id)
    \/ \E telegram_id \in TelegramIds : AddToWhitelist(telegram_id)
    \/ \E telegram_id \in TelegramIds : RemoveFromWhitelist(telegram_id)

SpecWhitelist == InitWhitelist /\ [][NextWhitelist]_vars

(***************************************************************************)
(* Spec: the booking conversations.                                        *)
(***************************************************************************)
\* The tables as the admin's commands left them before the conversations: a
\* user is whitelisted exactly if the request was approved, and has a limit or none
TablesChoices ==
    {[whitelist |-> IF st = "approved" THEN {UserId(u) : u \in Bookers} ELSE {},
      access_requests |-> [id \in {UserId(u) : u \in Bookers} |-> st],
      limits |-> IF lim = NoLimit THEN EmptyDict
                 ELSE [id \in {UserId(u) : u \in Bookers} |-> lim]] :
        st \in {"pending", "approved"}, lim \in {NoLimit} \cup VALID_DURATIONS}

Init ==
    /\ responses = << >>
    /\ result = NoResult
    /\ cache = [k \in {} |-> NoData]
    /\ now = 0
    /\ upver = 0
    /\ inflight = [c \in Callers |-> Idle]
    /\ last = NoCall
    /\ fetched = [a \in {} |-> NoData]
    /\ cleared = {}
    /\ settings \in SettingsChoices
    /\ \E t \in TablesChoices :
          /\ whitelist = t.whitelist
          /\ access_requests = t.access_requests
          /\ limits = t.limits
    /\ conv = [u \in Bookers |-> END]
    /\ user_data = [u \in Bookers |-> EmptyDict]
    /\ shown = [u \in Bookers |-> NoMessage]
    /\ requested = [u \in Bookers |-> NoRequest]
    /\ bookings = {}
    /\ snapshot = NoSnapshot
    /\ keyboard = << >>
    /\ returned = NoReturn
    /\ sent = {}
    /\ unfetched = {}

Next ==
    \/ \E u \in Bookers, tg \in Telegram : BookCommand(u, tg)
    \/ \E u \in Bookers, r \in FetchReplies, tg \in Telegram :
          \E data \in Pressable(u) : SelectTimezone(u, data, r, tg)
    \/ \E u \in Bookers, r \in FetchReplies, tg \in Telegram :
          \E data \in Pressable(u) : SelectDuration(u, data, r, tg)
    \/ \E u \in Bookers, tg \in Telegram :
          \E data \in Pressable(u) : ChangeTimezone(u, data, tg)
    \/ \E u \in Bookers, r \in FetchReplies, tg \in Telegram :
          \E data \in Pressable(u) : LoadMoreDates(u, data, r, tg)
    \/ \E u \in Bookers : \E data \in Pressable(u) : Noop(u, data)
    \/ \E u \in Bookers, tg \in Telegram :
          \E data \in Pressable(u) : SelectSlot(u, data, tg)
    \/ \E u \in Bookers, text \in NameInputs, tg \in Telegram : EnterName(u, text, tg)
    \/ \E u \in Bookers, tg \in Telegram :
          \E data \in Pressable(u) : EmailDecision(u, data, tg)
    \/ \E u \in Bookers, text \in EmailInputs, tg \in Telegram : EnterEmail(u, text, tg)
    \/ \E u \in Bookers, r \in HelperReplies, tg \in Telegram :
          \E data \in Pressable(u) : ConfirmBooking(u, data, r, tg)
    \/ \E u \in Bookers, tg \in Telegram :
          \E data \in Pressable(u) \cup {CmdCancel} : Cancel(u, data, tg)
    \/ \E u \in Bookers, tg \in Telegram, ends \in BOOLEAN : BookingTimeout(u, tg, ends)

Spec == Init /\ [][Next]_vars

(***************************************************************************)
(* SpecName: enter_name applied to names of every kind, in the states      *)
(* select_slot leaves the conversation in.                                 *)
(***************************************************************************)
\* user_data as select_slot leaves it, with or without a name of an earlier pass
AfterSelectSlot ==
    {LET t == SlotTime(Today + 1, h, UtcOffset(tz))
         ud == Set(Set(Set(Set(Set(EmptyDict, "timezone", tz), "offset_days", 0),
                           "duration", m), "selected_date", DateStr(t.day)),
                   "selected_time", TimeIso(t))
     IN IF prior = None THEN ud ELSE Set(ud, "name", prior) :
        tz \in Timezones, m \in DURATION_OPTIONS, h \in {10, 11},
        prior \in {None, << "b", "o", "b" >>}}

\* The texts sent as a name: nothing but whitespace; 1, MAX_NAME_LENGTH and
\* MAX_NAME_LENGTH + 1 characters, bare and with whitespace around or inside
AllNameInputs ==
    {<< " " >>, << " ", "\t", "\n" >>,
     << "b" >>, << " ", "b", "\n" >>, << "b", " ", "c" >>,
     Repeat("a", MAX_NAME_LENGTH),
     << " " >> \o Repeat("a", MAX_NAME_LENGTH) \o << "\t", " " >>,
     Repeat("a", MAX_NAME_LENGTH + 1),
     << " " >> \o Repeat("a", MAX_NAME_LENGTH + 1),
     Repeat("a", MAX_NAME_LENGTH - 1) \o << " ", "b" >>}

InitName ==
    /\ responses = << >>
    /\ result = NoResult
    /\ cache = [k \in {} |-> NoData]
    /\ now = 0
    /\ upver = 0
    /\ inflight = [c \in Callers |-> Idle]
    /\ last = NoCall
    /\ fetched = [a \in {} |-> NoData]
    /\ cleared = {}
    /\ settings \in {s \in SettingsChoices : s.calcom_event_type_id # NoId}
    /\ whitelist = {}
    /\ access_requests = EmptyDict
    /\ limits = EmptyDict
    /\ conv = [u \in Bookers |-> ENTERING_NAME]
    /\ user_data \in [Bookers -> AfterSelectSlot]
    /\ shown = [u \in Bookers |-> Message("enter_name", {})]
    /\ requested = [u \in Bookers |-> NoRequest]
    /\ bookings = {}
    /\ snapshot = NoSnapshot
    /\ keyboard = << >>
    /\ returned = NoReturn
    /\ sent = {}
    /\ unfetched = {}

NextName ==
    \E u \in Bookers, text \in AllNameInputs, tg \in Telegram : EnterName(u, text, tg)

SpecName == InitName /\ [][NextName]_vars

(***************************************************************************)
(* SpecEmail: enter_email applied to texts of every kind, in the states    *)
(* email_decision leaves the conversation in after "email_yes".            *)
(***************************************************************************)
\* user_data as enter_name leaves it; an earlier pass through the email step
\* may have left no email, None (email_no) or an address
AfterEmailYes ==
    {IF prior.kept THEN Set(ud, "email", prior.email) ELSE ud :
        ud \in {x \in AfterSelectSlot : "name" \in DOMAIN x},
        prior \in {[kept |-> FALSE, email |-> None], [kept |-> TRUE, email |-> None],
                   [kept |-> TRUE, email |-> << "x", "@", "y", ".", "z" >>]}}

\* The texts sent as an email: without "@"; with the dot before, after or on
\* both sides of the one "@"; with two "@" and the dot before or after the
\* last; with whitespace around; and the shortest texts on either side
AllEmailInputs ==
    {<< "a", "b" >>, << "a", ".", "b" >>,
     << "a", ".", "b", "@", "c" >>, << "a", "@", "b", ".", "c" >>,
     << "a", ".", "b", "@", "c", ".", "d" >>,
     << "a", "@", "b", ".", "c", "@", "d" >>, << "a", "@", "b", "@", "c", ".", "d" >>,
     << " ", "a", "@", "b", ".", "c", "\n" >>, << " ", "a", "@", "b", " " >>,
     << "@" >>, << ".", "@" >>, << "@", "." >>}

InitEmail ==
    /\ responses = << >>
    /\ result = NoResult
    /\ cache = [k \in {} |-> NoData]
    /\ now = 0
    /\ upver = 0
    /\ inflight = [c \in Callers |-> Idle]
    /\ last = NoCall
    /\ fetched = [a \in {} |-> NoData]
    /\ cleared = {}
    /\ settings \in {s \in SettingsChoices : s.calcom_event_type_id # NoId}
    /\ whitelist = {}
    /\ access_requests = EmptyDict
    /\ limits = EmptyDict
    /\ conv = [u \in Bookers |-> ENTERING_EMAIL]
    /\ user_data \in [Bookers -> AfterEmailYes]
    /\ shown = [u \in Bookers |-> Message("enter_email", {})]
    /\ requested = [u \in Bookers |-> NoRequest]
    /\ bookings = {}
    /\ snapshot = NoSnapshot
    /\ keyboard = << >>
    /\ returned = NoReturn
    /\ sent = {}
    /\ unfetched = {}

NextEmail ==
    \E u \in Bookers, text \in AllEmailInputs, tg \in Telegram : EnterEmail(u, text, tg)

SpecEmail == InitEmail /\ [][NextEmail]_vars

(***************************************************************************)
(* SpecDuration: _format_duration applied to the bookings create_booking   *)
(* can return.                                                             *)
(***************************************************************************)
\* An ISO 8601 UTC datetime of 2026, e.g. "2026-01-06T07:00:00Z", for an
\* instant given in minutes since 2026-01-01T00:00:00Z
IsoUtc(minute) ==
    DateStr(1 + minute \div 1440) \o "T" \o TwoDigits((minute % 1440) \div 60)
        \o ":" \o TwoDigits(minute % 60) \o ":00Z"

\* The starts and the lengths, in minutes, of the bookings considered
BookingStarts == {5 * 1440 + h * 60 + m : h \in {7, 12, 23}, m \in {0, 15, 30}}
BookingLengths == {15, 30, 45, 59, 60, 61, 90, 119, 120, 121, 180, 1440}

\* BookingResponse objects, as CalComClient.create_booking makes them of the
\* provider's answer (BookingResponse.model_validate(response["data"]))
BookingObject(start, minutes) ==
    [id |-> 1, uid |-> "x", title |-> "T", startTime |-> IsoUtc(start),
     endTime |-> IsoUtc(start + minutes), status |-> "accepted"]
BookingObjects == {BookingObject(s, m) : s \in BookingStarts, m \in BookingLengths}

\* datetime.fromisoformat(text), in minutes since 2026-01-01T00:00:00Z
FromIsoUtc ==
    [text \in {IsoUtc(s + m) : s \in BookingStarts, m \in BookingLengths \cup {0}} |->
        CHOOSE t \in {s + m : s \in BookingStarts, m \in BookingLengths \cup {0}} :
            IsoUtc(t) = text]

\* What _format_duration gives: a label, number and unit ("h" for the
\* "ч." of the code, "min" for its "мин."), or the AttributeError
Label(n, unit) == [n |-> n, unit |-> unit]
AttributeError == [n |-> 0, unit |-> "AttributeError"]

\* _format_duration(booking): it reads booking.start and booking.end
format_duration(booking) ==
    IF ~({"start", "end"} \subseteq DOMAIN booking) THEN AttributeError
    ELSE LET start == FromIsoUtc[booking.start]
             end == FromIsoUtc[booking.end]
             minutes == end - start
         IN IF minutes >= 60 /\ minutes % 60 = 0 THEN Label(minutes \div 60, "h")
            ELSE Label(minutes, "min")

InitDuration ==
    /\ responses = << >>
    /\ result = NoResult
    /\ cache = [k \in {} |-> NoData]
    /\ now = 0
    /\ upver = 0
    /\ inflight = [c \in Callers |-> Idle]
    /\ last = NoCall
    /\ fetched = [a \in {} |-> NoData]
    /\ cleared = {}
    /\ settings \in {s \in SettingsChoices : s.calcom_event_type_id # NoId}
    /\ whitelist = {}
    /\ access_requests = EmptyDict
    /\ limits = EmptyDict
    /\ conv = [u \in Bookers |-> CONFIRMING]
    /\ user_data = [u \in Bookers |-> EmptyDict]
    /\ shown = [u \in Bookers |-> Message("creating", {})]
    /\ requested = [u \in Bookers |-> NoRequest]
    /\ bookings = {}
    /\ snapshot = NoSnapshot
    /\ keyboard = << >>
    /\ returned = NoReturn
    /\ sent = {}
    /\ unfetched = {}

FormatDuration(booking) ==
    /\ returned' = Call("_format_duration", << booking >>, format_duration(booking))
    /\ UNCHANGED <<responses, result, cache, now, upver, inflight, last, fetched,
                   cleared, settings, whitelist, access_requests, limits, conv,
                   user_data, shown, requested, bookings, snapshot, keyboard, sent,
                   unfetched>>

NextDuration == \E booking \in BookingObjects : FormatDuration(booking)

SpecDuration == InitDuration /\ [][NextDuration]_vars

(***************************************************************************)
(* SpecBookings: the methods of BookingService called one after another on *)
(* a bookings table. save_booking cannot store a BookingResponse of this   *)
(* source (it reads booking.start and booking.end), so the rows are those  *)
(* an earlier deployment left in the database file.                        *)
(***************************************************************************)
\* A row of the bookings table; end_minutes is the row's end, in minutes after
\* the moment of the calls
BookingRow(id, telegram_id, end_minutes, status) ==
    [id |-> id, telegram_id |-> telegram_id, calcom_booking_id |-> id,
     end_minutes |-> end_minutes, status |-> status]
RowIds == {1, 2}
BookingRows ==
    {BookingRow(id, UserId(u), e, st) :
        id \in RowIds, u \in Users, e \in {0 - 60, 60}, st \in {"active", "cancelled"}}
\* The tables: at most one row per id
BookingTables ==
    {t \in SUBSET BookingRows : \A r1 \in t, r2 \in t : r1.id = r2.id => r1 = r2}

InitBookings ==
    /\ responses = << >>
    /\ result = NoResult
    /\ cache = [k \in {} |-> NoData]
    /\ now = 0
    /\ upver = 0
    /\ inflight = [c \in Callers |-> Idle]
    /\ last = NoCall
    /\ fetched = [a \in {} |-> NoData]
    /\ cleared = {}
    /\ settings \in {s \in SettingsChoices : s.calcom_event_type_id # NoId}
    /\ whitelist = {}
    /\ access_requests = EmptyDict
    /\ limits = EmptyDict
    /\ conv = [u \in Bookers |-> END]
    /\ user_data = [u \in Bookers |-> EmptyDict]
    /\ shown = [u \in Bookers |-> NoMessage]
    /\ requested = [u \in Bookers |-> NoRequest]
    /\ bookings \in BookingTables
    /\ snapshot = NoSnapshot
    /\ keyboard = << >>
    /\ returned = NoReturn
    /\ sent = {}
    /\ unfetched = {}

\* A call of a method of BookingService: the table after it and what it returned
ServiceCall(table, name, args, value) ==
    /\ bookings' = table
    /\ returned' = Call(name, args, value)
    /\ UNCHANGED <<responses, result, cache, now, upver, inflight, last, fetched,
                   cleared, settings, whitelist, access_requests, limits, conv,
                   user_data, shown, requested, snapshot, keyboard, sent,
                   unfetched>>

\* BookingService.save_booking(telegram_id, booking): the arguments of the
\* INSERT are evaluated first, booking.start among them
SaveBooking(telegram_id, booking) ==
    /\ ~({"start", "end"} \subseteq DOMAIN booking)
    /\ ServiceCall(bookings, "save_booking", << telegram_id, booking.id >>,
                   AttributeError)

\* BookingService.list_upcoming_bookings(telegram_id)
ListUpcomingBookings(telegram_id) ==
    /\ telegram_id \in TelegramIds
    /\ ServiceCall(bookings, "list_upcoming_bookings", << telegram_id >>,
                   {row \in bookings : /\ row.telegram_id = telegram_id
                                       /\ row.status = "active"
                                       /\ row.end_minutes >= 0})

\* BookingService.get_booking_for_user(booking_row_id, telegram_id)
GetBookingForUser(booking_row_id, telegram_id) ==
    /\ telegram_id \in TelegramIds
    /\ LET rows == {row \in bookings : row.id = booking_row_id
                                         /\ row.telegram_id = telegram_id}
       IN ServiceCall(bookings, "get_booking_for_user",
                      << booking_row_id, telegram_id >>,
                      IF rows = {} THEN None ELSE CHOOSE row \in rows : TRUE)

\* BookingService.mark_cancelled(booking_row_id, telegram_id): the UPDATE, and
\* execute_write's result taken for the number of rows it changed
MarkCancelled(booking_row_id, telegram_id) ==
    /\ telegram_id \in TelegramIds
    /\ LET hit(row) == /\ row.id = booking_row_id
                       /\ row.telegram_id = telegram_id
                       /\ row.status = "active"
           rowcount == lastrowid_of_update
       IN ServiceCall({IF hit(row) THEN [row EXCEPT !.status = "cancelled"] ELSE row :
                          row \in bookings},
                      "mark_cancelled", << booking_row_id, telegram_id >>, rowcount > 0)

NextBookings ==
    \/ \E u \in Users, booking \in BookingObjects : SaveBooking(UserId(u), booking)
    \/ \E u \in Users : ListUpcomingBookings(UserId(u))
    \/ \E id \in RowIds, u \in Users : GetBookingForUser(id, UserId(u))
    \/ \E id \in RowIds, u \in Users : MarkCancelled(id, UserId(u))

SpecBookings == InitBookings /\ [][NextBookings]_vars

(***************************************************************************)
(* SpecKeyboard: build_availability_keyboard applied to availability       *)
(* responses of every shape: up to MaxDates dates, in one timezone, each   *)
(* with no slot or with two, three or MaxSlots slots out of order, and at   *)
(* least one date with slots (_show_availability builds no keyboard else). *)
(***************************************************************************)
KbDays == (Today + 1) .. (Today + MaxDates)

\* The lists of slots a date of the response can have
SlotLists(d, off) ==
    << << >>,
       << SlotTime(d, 11, off), SlotTime(d, 10, off) >>,
       << SlotTime(d, 12, off), SlotTime(d, 10, off), SlotTime(d, 14, off) >>,
       [i \in 1 .. MaxSlots |-> SlotTime(d, 10 + MaxSlots - i, off)] >>

\* The response that has, of the dates of KbDays, those picked, each with the
\* list picked for it
Snapshot(pick, tz) ==
    [d \in {e \in KbDays : pick[e] # 0} |-> SlotLists(d, UtcOffset(tz))[pick[d]]]

InitKeyboard ==
    /\ responses = << >>
    /\ result = NoResult
    /\ cache = [k \in {} |-> NoData]
    /\ now = 0
    /\ upver = 0
    /\ inflight = [c \in Callers |-> Idle]
    /\ last = NoCall
    /\ fetched = [a \in {} |-> NoData]
    /\ cleared = {}
    /\ settings \in {s \in SettingsChoices : s.calcom_event_type_id # NoId}
    /\ whitelist = {}
    /\ access_requests = EmptyDict
    /\ limits = EmptyDict
    /\ conv = [u \in Bookers |-> END]
    /\ user_data = [u \in Bookers |-> EmptyDict]
    /\ shown = [u \in Bookers |-> NoMessage]
    /\ requested = [u \in Bookers |-> NoRequest]
    /\ bookings = {}
    /\ \E pick \in [KbDays -> 0 .. 4], tz \in Timezones :
          /\ \E d \in KbDays : pick[d] > 1
          /\ snapshot = Snapshot(pick, tz)
    /\ keyboard = << >>
    /\ returned = NoReturn
    /\ sent = {}
    /\ unfetched = {}

BuildAvailabilityKeyboard ==
    /\ keyboard = << >>
    /\ keyboard' = keyboard_rows(snapshot, 0)
    /\ UNCHANGED <<responses, result, cache, now, upver, inflight, last, fetched,
                   cleared, settings, whitelist, access_requests, limits, conv,
                   user_data, shown, requested, bookings, snapshot, returned, sent,
                   unfetched>>

NextKeyboard == BuildAvailabilityKeyboard

SpecKeyboard == InitKeyboard /\ [][NextKeyboard]_vars

(***************************************************************************)
(* SpecClient: the client under concurrently running callers.              *)
(***************************************************************************)
InitClient ==
    /\ responses = << >>
    /\ result = NoResult
    /\ cache = [k \in {} |-> NoData]
    /\ now = 0
    /\ upver = 0
    /\ inflight = [c \in Callers |-> Idle]
    /\ last = NoCall
    /\ fetched = [a \in {} |-> NoData]
    /\ cleared = {}
    /\ settings \in {s \in SettingsChoices : s.calcom_event_type_id # NoId}
    /\ whitelist = {}
    /\ access_requests = EmptyDict
    /\ limits = EmptyDict
    /\ conv = [u \in Bookers |-> END]
    /\ user_data = [u \in Bookers |-> EmptyDict]
    /\ shown = [u \in Bookers |-> NoMessage]
    /\ requested = [u \in Bookers |-> NoRequest]
    /\ bookings = {}
    /\ snapshot = NoSnapshot
    /\ keyboard = << >>
    /\ returned = NoReturn
    /\ sent = {}
    /\ unfetched = {}

NextClient ==
    \/ Tick /\ UNCHANGED varsRetry /\ UNCHANGED varsConv
    \/ UpstreamChange /\ UNCHANGED varsRetry /\ UNCHANGED varsConv
    \/ \E c \in Callers, a \in GetArgs : GetAvailabilityBegin(c, a) /\ UNCHANGED varsRetry /\ UNCHANGED varsConv
    \/ \E c \in Callers, r \in HelperResults : GetAvailabilityEnd(c, r) /\ UNCHANGED varsRetry /\ UNCHANGED varsConv
    \/ \E c \in Callers : CreateBookingBegin(c) /\ UNCHANGED varsRetry /\ UNCHANGED varsConv
    \/ \E c \in Callers, r \in HelperResults : CreateBookingEnd(c, r) /\ UNCHANGED varsRetry /\ UNCHANGED varsConv

SpecClient == InitClient /\ [][NextClient]_vars

(***************************************************************************)
(* SpecRace: the calls of SpecClient, with the history of which arguments  *)
(* no get_availability has begun for since a booking was made.             *)
(***************************************************************************)
InitRace ==
    /\ responses = << >>
    /\ result = NoResult
    /\ cache = [k \in {} |-> NoData]
    /\ now = 0
    /\ upver = 0
    /\ inflight = [c \in Callers |-> Idle]
    /\ last = NoCall
    /\ fetched = [a \in {} |-> NoData]
    /\ cleared = {}
    /\ settings \in {s \in SettingsChoices : s.calcom_event_type_id # NoId}
    /\ whitelist = {}
    /\ access_requests = EmptyDict
    /\ limits = EmptyDict
    /\ conv = [u \in Bookers |-> END]
    /\ user_data = [u \in Bookers |-> EmptyDict]
    /\ shown = [u \in Bookers |-> NoMessage]
    /\ requested = [u \in Bookers |-> NoRequest]
    /\ bookings = {}
    /\ snapshot = NoSnapshot
    /\ keyboard = << >>
    /\ returned = NoReturn
    /\ sent = {}
    /\ unfetched = {}

\* get_availability begins for arguments a
GetBegins(c, a) ==
    /\ GetAvailabilityBegin(c, a)
    /\ unfetched' = unfetched \ {a}
    /\ UNCHANGED <<varsRetry, varsBot>>

\* create_booking ends: after a booking made, no get_availability has begun yet
BookingEnds(c, r) ==
    /\ CreateBookingEnd(c, r)
    /\ unfetched' = IF r.ok THEN GetArgs ELSE unfetched
    /\ UNCHANGED <<varsRetry, varsBot>>

NextRace ==
    \/ Tick /\ UNCHANGED <<varsRetry, varsBot, unfetched>>
    \/ UpstreamChange /\ UNCHANGED <<varsRetry, varsBot, unfetched>>
    \/ \E c \in Callers, a \in GetArgs : GetBegins(c, a)
    \/ \E c \in Callers, r \in HelperResults :
          GetAvailabilityEnd(c, r) /\ UNCHANGED <<varsRetry, varsBot, unfetched>>
    \/ \E c \in Callers :
          CreateBookingBegin(c) /\ UNCHANGED <<varsRetry, varsBot, unfetched>>
    \/ \E c \in Callers, r \in HelperResults : BookingEnds(c, r)

SpecRace == InitRace /\ [][NextRace]_vars

(***************************************************************************)
(* SpecRetry: one helper call against every script of upstream answers.    *)
(***************************************************************************)
InitRetry ==
    /\ responses \in Scripts
    /\ result = NoResult
    /\ cache = [k \in {} |-> NoData]
    /\ now = 0
    /\ upver = 0
    /\ inflight = [c \in Callers |-> Idle]
    /\ last = NoCall
    /\ fetched = [a \in {} |-> NoData]
    /\ cleared = {}
    /\ settings \in {s \in SettingsChoices : s.calcom_event_type_id # NoId}
    /\ whitelist = {}
    /\ access_requests = EmptyDict
    /\ limits = EmptyDict
    /\ conv = [u \in Bookers |-> END]
    /\ user_data = [u \in Bookers |-> EmptyDict]
    /\ shown = [u \in Bookers |-> NoMessage]
    /\ requested = [u \in Bookers |-> NoRequest]
    /\ bookings = {}
    /\ snapshot = NoSnapshot
    /\ keyboard = << >>
    /\ returned = NoReturn
    /\ sent = {}
    /\ unfetched = {}

RequestWithRetry ==
    /\ result = NoResult
    /\ result' = request_with_retry(responses)
    /\ UNCHANGED responses

NextRetry == RequestWithRetry /\ UNCHANGED varsClient /\ UNCHANGED varsConv

SpecRetry == InitRetry /\ [][NextRetry]_vars

(***************************************************************************)
(* SpecPost: one call of create_booking against every script of upstream   *)
(* answers to POST /bookings, with what the provider did with each attempt *)
(* (accepted: it made the booking, whether or not its answer arrived).     *)
(***************************************************************************)
\* What the provider can do with one POST: an answer of 200 is a booking made;
\* a 4xx or a 429 is none; behind a transport error (a timeout of the read, a
\* connection lost) or a 5xx (a gateway's, say) the booking was made or not.
\* The provider may or may not refuse a second booking of the slot.
PostOutcomes ==
    {[exc |-> o.exc, status |-> o.status, accepted |-> acc] :
        o \in Outcomes, acc \in BOOLEAN} \ 
    ({[exc |-> FALSE, status |-> 200, accepted |-> FALSE]}
         \cup {[exc |-> FALSE, status |-> s, accepted |-> TRUE] :
                   s \in {st \in Statuses : st >= 400 /\ st < 500}})
PostScripts ==
    {[i \in 1 .. RespLen |->
         [exc |-> o[i].exc, status |-> o[i].status, body |-> i,
          accepted |-> o[i].accepted]] :
        o \in [1 .. RespLen -> PostOutcomes]}

InitPost ==
    /\ responses \in PostScripts
    /\ result = NoResult
    /\ cache = [k \in {} |-> NoData]
    /\ now = 0
    /\ upver = 0
    /\ inflight = [c \in Callers |-> Idle]
    /\ last = NoCall
    /\ fetched = [a \in {} |-> NoData]
    /\ cleared = {}
    /\ settings \in {s \in SettingsChoices : s.calcom_event_type_id # NoId}
    /\ whitelist = {}
    /\ access_requests = EmptyDict
    /\ limits = EmptyDict
    /\ conv = [u \in Bookers |-> END]
    /\ user_data = [u \in Bookers |-> EmptyDict]
    /\ shown = [u \in Bookers |-> NoMessage]
    /\ requested = [u \in Bookers |-> NoRequest]
    /\ bookings = {}
    /\ snapshot = NoSnapshot
    /\ keyboard = << >>
    /\ returned = NoReturn
    /\ sent = {}
    /\ unfetched = {}

\* create_booking: the helper's attempts, each of which the provider handles,
\* and the clearing of the cache when the helper returns. upver counts the
\* bookings the provider made.
CreateBooking ==
    LET r == request_with_retry(responses) IN
    /\ result = NoResult
    /\ result' = r
    /\ upver' = upver + Cardinality({i \in 1 .. r.calls : responses[i].accepted})
    /\ cache' = IF r.ok THEN CacheClear(cache) ELSE cache
    /\ UNCHANGED <<responses, now, inflight, last, fetched, cleared>>

NextPost == CreateBooking /\ UNCHANGED varsConv

SpecPost == InitPost /\ [][NextPost]_vars

(***************************************************************************)
(* Properties of the request helper (SpecRetry).                           *)
(***************************************************************************)
Done == result # NoResult

\* The outcomes the specification calls retryable: 429, 502, 503, 504 and
\* transport errors.
SpecRetryable(r) == r.exc \/ r.status \in {429, 502, 503, 504}

C2_NonRetryableFailsAtOnce ==
    (Done /\ ~responses[1].exc /\ responses[1].status >= 400
          /\ ~SpecRetryable(responses[1]))
        => (~result.ok /\ result.calls = 1
            /\ result.status_code = responses[1].status)

\* C4: when the helper gives up after its last attempt, the error carries the
\* status and message of the last observed HTTP response, and status 0 only
\* when the last failure was a transport failure.
C4_ExhaustedCarriesLastStatus ==
    (Done /\ result.message.kind = "retries")
        => LET final == responses[result.calls] IN
           /\ ~final.exc => (result.status_code = final.status
                            /\ result.message.err = final)
           /\ result.status_code = 0 => final.exc

\* k retryable failures followed by a success on attempt k + 1
FailsThenSucceeds(k) ==
    /\ \A i \in 1 .. k : SpecRetryable(responses[i])
    /\ ~responses[k + 1].exc
    /\ responses[k + 1].status = 200

SucceedsOnAttempt(n) ==
    /\ result.ok
    /\ result.calls = n
    /\ result.payload = responses[n].body

C40_NoAttemptAfterFinalAnswer ==
    Done =>
        /\ result.calls \in 1 .. RespLen
        /\ \/ result.ok /\ result.payload = responses[result.calls].body
           \/ ~result.ok /\ result.message.kind \in {"text", "retries"}
        /\ \A i \in 1 .. (result.calls - 1) : SpecRetryable(responses[i])

(***************************************************************************)
(* Properties of the client's cache (SpecClient).                          *)
(***************************************************************************)
\* The step in which caller c's get_availability / create_booking returns
\* from its HTTP request with a success.
FetchSucceeds(c) ==
    inflight[c].op = "get" /\ inflight'[c].op = "idle" /\ last'.ok
BookingSucceeds(c) ==
    inflight[c].op = "book" /\ inflight'[c].op = "idle" /\ last'.ok

\* C6: a get_availability that begins within the TTL of an earlier fetch of the
\* same arguments, no booking having succeeded in between, makes no network
\* call (it never goes to the HTTP request) and returns that fetch's snapshot.
C6_SecondCallFromCache ==
    /\ \A c \in Callers : inflight[c].op = "get" => ~inflight[c].twice
    /\ (last.op = "get" /\ last.twice)
           => (last.hit /\ last.calls = 0 /\ last.data = last.first)

C6_Witness ==
    /\ last.op = "get"
    /\ last.twice
    /\ last.hit
    /\ last.age > 0
    /\ last.calls = 0
    /\ last.data.ver < upver

\* C7: the step in which create_booking succeeds leaves the cache without any
\* entry, and a get_availability that begins while its arguments' entry is
\* still dropped misses the cache and makes at least one network call.
C7_BookingClearsCache ==
    /\ [][(\E c \in Callers : BookingSucceeds(c)) => DOMAIN cache' = {}]_vars
    /\ [](last.op = "get" /\ last.after_clear => ~last.hit /\ last.calls >= 1)

C7_Witness ==
    /\ last.op = "get"
    /\ last.after_clear
    /\ ~last.hit
    /\ last.ok
    /\ last.calls = 1
    /\ Cardinality(cleared) >= 1

\* C8: get_availability never returns a cached entry whose age is the TTL or
\* more, and a fetch that succeeds leaves under its key the fresh snapshot
\* with the time of the fetch.
C8_ExpiredEntryNotServed ==
    /\ [](last.op = "get" /\ last.hit => last.age < cache_ttl)
    /\ [][\A c \in Callers : FetchSucceeds(c) =>
            LET key == CacheKey(inflight[c].args) IN
            /\ key \in DOMAIN cache'
            /\ cache'[key] = [cached_at |-> now,
                              data |-> Upstream(inflight[c].args, upver)]]_vars

C8_Witness ==
    /\ last.op = "get"
    /\ ~last.hit
    /\ last.ok
    /\ last.age >= cache_ttl
    /\ CacheKey(last.args) \in DOMAIN cache
    /\ cache[CacheKey(last.args)].cached_at = now
    /\ last.data = Upstream(last.args, upver)

\* C9: in every interleaving of the callers, the entry that would be served
\* for given arguments was fetched for exactly those arguments, every snapshot
\* returned is one of the call's own arguments, and different arguments have
\* different keys.
C9_CacheNotCorrupted ==
    /\ \A a \in GetArgs :
          CacheKey(a) \in DOMAIN cache => cache[CacheKey(a)].data.args = a
    /\ (last.op = "get" /\ last.ok) => last.data.args = last.args
    /\ \A a, b \in GetArgs : a # b => CacheKey(a) # CacheKey(b)

C9_Witness ==
    /\ Cardinality(DOMAIN cache) = Cardinality(GetArgs)
    /\ \E c \in Callers : inflight[c].op = "get"
    /\ \E c \in Callers : inflight[c].op = "book"
    /\ last.op = "get"
    /\ last.hit

C38_StatusMovesForwardOnly ==
    [][\A telegram_id \in TelegramIds :
           /\ Has(access_requests, telegram_id) =>
                  /\ Has(access_requests', telegram_id)
                  /\ \/ access_requests'[telegram_id] = access_requests[telegram_id]
                     \/ /\ access_requests[telegram_id] = "pending"
                        /\ access_requests'[telegram_id] \in {"approved", "rejected"}
           /\ (/\ returned'.call \in {"approve_request", "reject_request"}
               /\ returned'.args = << telegram_id >>
               /\ Get(access_requests, telegram_id, "") \in {"approved", "rejected"}) =>
                  /\ returned'.value = FALSE
                  /\ access_requests' = access_requests
                  /\ whitelist' = whitelist]_vars

\* approve_request was called for a request approved before, the user taken
\* off the whitelist since: it returned False and the user is still off it,
\* while another user's request is 'rejected'
C38_Witness ==
    /\ returned = Call("approve_request", << 1001 >>, FALSE)
    /\ Get(access_requests, 1001, "") = "approved"
    /\ 1001 \notin whitelist
    /\ Get(access_requests, 1002, "") = "rejected"

\* C39: once /start has been handled for a user who is not on the whitelist
\* (the handler went on to create_access_request), the user's access request
\* is 'pending', whatever happened to the user's earlier requests.
C39_StartLeavesPendingRequest ==
    [][\A p \in People :
           (/\ returned'.call = "create_access_request"
            /\ returned'.args = << UserId(p) >>) =>
               /\ UserId(p) \notin whitelist'
               /\ Get(access_requests', UserId(p), "") = "pending"]_vars

(***************************************************************************)
(* Properties of the booking conversation (Spec).                          *)
(***************************************************************************)
\* C3: when the provider answers POST /bookings with HTTP 409, the confirm
\* step shows the slot-taken message with a control back to availability for
\* the session's timezone (and cancel), and the conversation is in
\* VIEWING_AVAILABILITY.
C3_ConflictShowsSlotTaken ==
    \A u \in Bookers :
        (requested[u] # NoRequest /\ requested[u].conflict) =>
            /\ shown[u] = Message("slot_taken",
                                  {CbTz(user_data[u]["timezone"]), CbCancel})
            /\ conv[u] = VIEWING_AVAILABILITY

\* C10: for a user who is not whitelisted, /book never starts the booking
\* conversation and create_booking is never called on the user's behalf.
C10_WhitelistGatesBooking ==
    \A u \in Bookers :
        UserId(u) \notin whitelist =>
            /\ conv[u] = END
            /\ requested[u] = NoRequest

\* The keys of user_data a conversation state needs set, as the handlers that
\* lead to it leave them
Needs(state) ==
    IF state = SELECTING_DURATION THEN {"timezone"}
    ELSE IF state = VIEWING_AVAILABILITY THEN {"timezone", "duration"}
    ELSE IF state = ENTERING_NAME
    THEN {"timezone", "duration", "selected_date", "selected_time"}
    ELSE IF state \in {EMAIL_DECISION, ENTERING_EMAIL, CONFIRMING}
    THEN {"timezone", "duration", "selected_date", "selected_time", "name"}
    ELSE {}
FieldsSet == \A u \in Bookers : Needs(conv[u]) \subseteq DOMAIN user_data[u]

\* The step of a timeout that cleared user_data and left the conversation where
\* it was (its notice failed): the session is over, the state is not END
Expires(u) ==
    /\ conv[u] # END
    /\ conv'[u] = conv[u]
    /\ user_data[u] # EmptyDict
    /\ user_data'[u] = EmptyDict

C12_SuccessEndsAndClears ==
    \A u \in Bookers :
        (requested[u] # NoRequest /\ requested[u].ok) =>
            /\ conv[u] = END
            /\ user_data[u] = EmptyDict

\* C13: after a confirm whose create_booking returned a booking, the bookings
\* table has a row for the booking under the confirming user's id.
C13_SuccessIsRecorded ==
    \A u \in Bookers :
        (requested[u] # NoRequest /\ requested[u].ok) =>
            \E row \in bookings : row.telegram_id = UserId(u)

\* The step in which the conversation acknowledges a cancel to user u
Cancelled(u) == shown'[u].text = "cancelled" /\ shown[u].text # "cancelled"

\* C14: in every state but END the /cancel command is accepted, and so is the
\* cancel button of the message on the user's screen; a cancel that is handled
\* (its acknowledgement goes out) leaves the conversation at END and user_data
\* empty.
C14_CancelFromEveryState ==
    /\ [](\A u \in Bookers :
             conv[u] # END =>
                 /\ ENABLED Cancel(u, CmdCancel, "ok")
                 /\ CbCancel \in shown[u].buttons => ENABLED Cancel(u, CbCancel, "ok"))
    /\ [][\A u \in Bookers :
             Cancelled(u) => (conv'[u] = END /\ user_data'[u] = EmptyDict)]_vars

C14_Witness ==
    \E u \in Bookers :
        /\ shown[u] = Message("cancelled", {})
        /\ conv[u] = END
        /\ user_data[u] = EmptyDict
        /\ DOMAIN cache # {}

\* C37: a cancel whose acknowledgement cannot be edited in place sends it as a
\* new message, clears user_data and ends the conversation; and however the
\* delivery of the acknowledgement fails, no cancel leaves the conversation
\* open or user_data as it was.
C37_CancelClearsWhateverTelegramDoes ==
    \A u \in Bookers :
        conv[u] # END =>
            \A tg \in Telegram, data \in Pressable(u) \cup {CmdCancel} :
                ~ENABLED (/\ Cancel(u, data, tg)
                          /\ \/ conv'[u] # END
                             \/ user_data'[u] # EmptyDict
                             \/ tg = "not_editable" /\ shown'[u] # Message("cancelled", {}))

\* C15: a timeout, in whatever state but END it fires, leaves user_data empty,
\* also when its notice cannot be delivered; when the notice goes out (edited
\* in place, or sent as a new message where there is nothing to edit) the
\* conversation is at END.
C15_TimeoutClears ==
    [][\A u \in Bookers, tg \in Telegram, ends \in BOOLEAN :
           BookingTimeout(u, tg, ends) =>
               /\ user_data'[u] = EmptyDict
               /\ tg # "error" => (conv'[u] = END /\ shown'[u].text = "timeout")]_vars

\* A timeout fired in CONFIRMING, its notice failed, and the session is gone
C15_Witness ==
    \E u \in Bookers :
        /\ conv[u] = END
        /\ user_data[u] = EmptyDict
        /\ shown[u].text = "confirm"

C17_TimezoneChoice ==
    [][\A u \in Bookers, tz \in Timezones, tg \in Telegram :
           LET limit == Get(limits, UserId(u), NoLimit)
               ud == user_data'[u]
           IN
           \/ conv[u] \notin {SELECTING_TIMEZONE, VIEWING_AVAILABILITY, CONFIRMING}
           \/ /\ Get(ud, "timezone", "") = tz
              /\ Get(ud, "offset_days", 1) = 0
              /\ IF limit # NoLimit
                 THEN /\ Get(ud, "duration", NoLimit) = limit
                      /\ shown'[u].text # "choose_duration"
                      /\ conv'[u] # SELECTING_DURATION
                      /\ (tg # "error" /\ get_event_type_id(limit) # NoId)
                             => conv'[u] = VIEWING_AVAILABILITY
                 ELSE /\ Get(ud, "duration", NoLimit)
                             = Get(user_data[u], "duration", NoLimit)
                      /\ tg # "error" =>
                             /\ conv'[u] = SELECTING_DURATION
                             /\ shown'[u] = Message("choose_duration",
                                                    build_duration_keyboard)
           \/ ~(/\ CbTz(tz) \in shown[u].buttons \/ CbTz(tz) \in StaleButtons
                /\ \E r \in FetchReplies : SelectTimezone(u, CbTz(tz), r, tg))]_vars

\* A user limited to 60 minutes chose a timezone and sees the availability
C17_Witness ==
    \E u \in Bookers :
        /\ Get(limits, UserId(u), NoLimit) = 60
        /\ conv[u] = VIEWING_AVAILABILITY
        /\ user_data[u] = Set(Set(Set(EmptyDict, "timezone", "Asia/Omsk"),
                                  "offset_days", 0), "duration", 60)
        /\ shown[u].text = "availability"

\* Every payload "duration:..." a user can press
DurationPayloads ==
    {d \in StaleButtons \cup build_duration_keyboard : HasPrefix(d, "duration")}

\* C18: in SELECTING_DURATION a payload "duration:..." that int() does not
\* take, or whose number is not a configured duration, changes nothing: the
\* state, user_data, the message shown and the cache stay, and no request is
\* made. Whatever the payload, select_duration stores nothing or stores 30 or
\* 60 as the duration.
C18_BadDurationIgnored ==
    [][\A u \in Bookers :
           conv[u] = SELECTING_DURATION =>
               \A data \in DurationPayloads, r \in FetchReplies, tg \in Telegram :
                   \/ /\ data \in BadDurationPayloads =>
                             /\ conv'[u] = SELECTING_DURATION
                             /\ user_data'[u] = user_data[u]
                             /\ shown'[u] = shown[u]
                             /\ cache' = cache
                             /\ requested'[u] = NoRequest
                      /\ \/ user_data'[u] = user_data[u]
                         \/ \E m \in {30, 60} :
                                user_data'[u] = Set(user_data[u], "duration", m)
                   \/ ~(/\ data \in shown[u].buttons \/ data \in StaleButtons
                        /\ SelectDuration(u, data, r, tg))]_vars

\* Back at the picker with a duration stored before (the timezone was changed
\* from the confirmation), where a bad payload must leave the 60
C18_Witness ==
    \E u \in Bookers :
        /\ conv[u] = SELECTING_DURATION
        /\ Get(user_data[u], "duration", NoLimit) = 60
        /\ Has(user_data[u], "name")
        /\ BadDurationPayloads \subseteq Pressable(u)

(***************************************************************************)
(* Properties of the availability keyboard (SpecKeyboard).                 *)
(***************************************************************************)
\* The slot buttons of the keyboard in reading order, with the date and the
\* time each carries in its payload "slot:<date>:<time>"
RECURSIVE Flat(_)
Flat(rows) == IF rows = << >> THEN << >> ELSE rows[1] \o Flat(Tail(rows))
IsSlotButton(b) == HasPrefix(b, "slot")
DateOfText == [x \in {DateStr(d) : d \in KbDays} |-> CHOOSE d \in KbDays : DateStr(d) = x]
KbSlotTimes ==
    {SlotTime(d, h, UtcOffset(tz)) :
        d \in KbDays, h \in 10 .. (10 + MaxSlots), tz \in Timezones}
TimeOfTokens ==
    [x \in {TimeIsoTokens(t) : t \in KbSlotTimes} |->
        CHOOSE t \in KbSlotTimes : TimeIsoTokens(t) = x]
DateOf(b) == DateOfText[b[3]]
TimeOf(b) == TimeOfTokens[SubSeq(b, 5, Len(b))]
\* The instant of a slot, in hours
Instant(t) == (t.day * 24) + t.hour - t.off
\* The first five dates of the response
FirstDates ==
    {d \in DOMAIN snapshot : Cardinality({e \in DOMAIN snapshot : e < d}) < 5}

\* C19: the keyboard built of an availability response shows the dates with
\* slots among the response's first five dates, in ascending order, one header
\* each, and under each date its earliest slots, six at most, in ascending
\* order of time.
C19_KeyboardLimits ==
    keyboard # << >> =>
        LET buttons == Flat(keyboard)
            slots == SelectSeq(buttons, IsSlotButton)
            n == Len(slots)
            date == [i \in 1 .. n |-> DateOf(slots[i])]
            time == [i \in 1 .. n |-> TimeOf(slots[i])]
            at == [i \in 1 .. n |-> Instant(time[i])]
            dates == {date[i] : i \in 1 .. n}
        IN
        /\ Cardinality(dates) <= 5
        /\ dates = {d \in FirstDates : snapshot[d] # << >>}
        /\ Len(SelectSeq(buttons, LAMBDA b : b = CbNoop)) = Cardinality(dates)
        /\ \A i \in 1 .. (n - 1) :
              /\ date[i] <= date[i + 1]
              /\ date[i] = date[i + 1] => at[i] < at[i + 1]
        /\ \A d \in dates :
              LET mine == {i \in 1 .. n : date[i] = d}
                  all == {Instant(snapshot[d][m]) : m \in 1 .. Len(snapshot[d])}
              IN
              /\ Cardinality(mine) <= 6
              /\ Cardinality(mine) = IF Cardinality(all) < 6 THEN Cardinality(all) ELSE 6
              /\ \A i \in mine :
                    /\ time[i].day = d
                    /\ at[i] \in all
                    /\ Cardinality({x \in all : x < at[i]}) < 6

\* A response of more than five dates, one of the first five without slots and
\* one with more than six, latest first
C19_Witness ==
    /\ keyboard # << >>
    /\ Cardinality(DOMAIN snapshot) > 5
    /\ \E d \in FirstDates : snapshot[d] = << >>
    /\ \E d \in FirstDates :
          /\ Len(snapshot[d]) > 6
          /\ snapshot[d][1].hour > snapshot[d][2].hour
    /\ \E d \in DOMAIN snapshot \ FirstDates : snapshot[d] # << >>

\* C36: the keyboard built of a response with a slot on at least one date has
\* at least one slot button, and each of its date headers is followed at once
\* by a slot button of a date of its own, the earliest dates of the response
\* being empty or not.
C36_SlotButtonShown ==
    keyboard # << >> =>
        LET buttons == Flat(keyboard)
            n == Len(buttons)
            headers == {i \in 1 .. n : buttons[i] = CbNoop}
        IN
        /\ \E i \in 1 .. n : IsSlotButton(buttons[i])
        /\ \A i \in headers :
              /\ i < n
              /\ IsSlotButton(buttons[i + 1])
              /\ \A j \in headers : j < i => DateOf(buttons[j + 1]) < DateOf(buttons[i + 1])

(***************************************************************************)
(* Properties of the name step (SpecName).                                 *)
(***************************************************************************)
\* The text without the whitespace at its ends, by positions: from the first
\* character that is no whitespace to the last
Trimmed(text) ==
    LET inked == {i \in 1 .. Len(text) : text[i] \notin {" ", "\t", "\n"}}
    IN IF inked = {} THEN << >>
       ELSE SubSeq(text, CHOOSE i \in inked : \A j \in inked : i <= j,
                         CHOOSE i \in inked : \A j \in inked : i >= j)

\* C20: a name whose trimmed length is 0 or more than 100 is turned away: the
\* state stays ENTERING_NAME and user_data, the name in it or its absence
\* included, is unchanged. A name of trimmed length 1 to 100 is stored trimmed
\* and, the question about the email going out, the state is EMAIL_DECISION.
C20_NameValidation ==
    [][\A u \in Bookers, text \in AllNameInputs, tg \in Telegram :
           EnterName(u, text, tg) =>
               IF Len(Trimmed(text)) = 0 \/ Len(Trimmed(text)) > 100
               THEN /\ conv'[u] = ENTERING_NAME
                    /\ user_data'[u] = user_data[u]
                    /\ tg # "error" =>
                           shown'[u].text = IF Len(Trimmed(text)) = 0 THEN "name_empty"
                                            ELSE "name_too_long"
               ELSE /\ user_data'[u] = Set(user_data[u], "name", Trimmed(text))
                    /\ tg # "error" => conv'[u] = EMAIL_DECISION]_vars

\* A name of exactly 100 characters, sent with whitespace around it, replaced
\* the name of an earlier pass
C20_Witness ==
    \E u \in Bookers :
        /\ conv[u] = EMAIL_DECISION
        /\ Len(user_data[u]["name"]) = 100
        /\ user_data[u]["name"][1] = "a"
        /\ user_data[u]["name"][100] = "a"

(***************************************************************************)
(* Properties of the email step (SpecEmail).                               *)
(***************************************************************************)
\* The text has an "@", and a "." at a position after its last "@"
AtThenDot(text) ==
    \E i \in 1 .. Len(text) :
        /\ text[i] = "@"
        /\ \A k \in (i + 1) .. Len(text) : text[k] # "@"
        /\ \E j \in (i + 1) .. Len(text) : text[j] = "."

\* C21: an email typed in ENTERING_EMAIL is accepted (stored without the
\* whitespace around it, the confirmation going out, state CONFIRMING) exactly
\* when it has an "@" and a "." after its last "@"; any other text leaves the
\* state ENTERING_EMAIL and user_data, the email in it included, unchanged.
C21_EmailValidation ==
    [][\A u \in Bookers, text \in AllEmailInputs, tg \in Telegram :
           EnterEmail(u, text, tg) =>
               IF AtThenDot(text)
               THEN /\ user_data'[u] = Set(user_data[u], "email", Trimmed(text))
                    /\ tg # "error" => conv'[u] = CONFIRMING
               ELSE /\ conv'[u] = ENTERING_EMAIL
                    /\ user_data'[u] = user_data[u]
                    /\ tg # "error" => shown'[u].text = "email_invalid"]_vars

\* An address with two "@" and the dot after the last one was accepted
C21_Witness ==
    \E u \in Bookers :
        /\ conv[u] = CONFIRMING
        /\ Has(user_data[u], "email")
        /\ user_data[u]["email"] = << "a", "@", "b", "@", "c", ".", "d" >>

\* C22: the attendee email of every BookingRequest sent is the email the user
\* typed when user_data holds one, and otherwise the placeholder
\* telegram-<id>@telecalbot.local with the id of the user who confirmed; it is
\* never None and never empty.
C22_AttendeeEmail ==
    [][\A u \in Bookers :
           \/ requested'[u] = NoRequest
           \/ /\ requested'[u].email \notin {None, << >>}
              /\ requested'[u].email =
                     IF Has(user_data[u], "email") /\ user_data[u]["email"] # None
                     THEN user_data[u]["email"]
                     ELSE << "telegram-", ToString(UserId(u)), "@telecalbot.local" >>]_vars

\* A request went out with the placeholder, the user having declined to give
\* an email
C22_Witness ==
    \E u \in Bookers :
        /\ requested[u] # NoRequest
        /\ Has(user_data[u], "email")
        /\ user_data[u]["email"] = None
        /\ requested[u].email = << "telegram-", "1001", "@telecalbot.local" >>

(***************************************************************************)
(* Properties of the duration label (SpecDuration).                        *)
(***************************************************************************)
\* C23: the label _format_duration gives for a booking is made of the whole
\* minutes m between its start and its end: m / 60 hours when 60 divides m,
\* and m minutes when it does not.
C23_DurationLabel ==
    returned.call = "_format_duration" =>
        LET booking == returned.args[1]
            m == FromIsoUtc[booking.endTime] - FromIsoUtc[booking.startTime]
        IN returned.value = IF m % 60 = 0 THEN Label(m \div 60, "h") ELSE Label(m, "min")

(***************************************************************************)
(* Properties of the conversation, continued (Spec).                       *)
(***************************************************************************)
\* The texts a handler shows once the provider was asked
ResultTexts == {"load_failed", "no_slots", "availability", "done", "slot_taken",
                "generic_error"}

\* No event type is configured for the duration, nor a default one
NothingMapped(duration) ==
    /\ settings.calcom_event_type_id = NoId
    /\ duration = 30 => settings.calcom_event_type_id_30 = NoId
    /\ duration = 60 => settings.calcom_event_type_id_60 = NoId

C25_ApproveRequest ==
    [][\A telegram_id \in TelegramIds :
           ApproveRequest(telegram_id) =>
               /\ Get(access_requests, telegram_id, "") = "pending" =>
                      /\ returned'.value = TRUE
                      /\ telegram_id \in whitelist'
                      /\ access_requests'[telegram_id] = "approved"
                      /\ telegram_id \notin get_pending_requests(access_requests')
               /\ ~Has(access_requests, telegram_id) =>
                      /\ returned'.value = FALSE
                      /\ whitelist' = whitelist
                      /\ access_requests' = access_requests]_vars

\* A pending request was approved while another user's request, made later,
\* is still pending
C25_Witness ==
    /\ returned = Call("approve_request", << 1001 >>, TRUE)
    /\ 1001 \in whitelist
    /\ access_requests[1001] = "approved"
    /\ get_pending_requests(access_requests) = {1002}

\* C26: reject_request for a pending request returns True, and after it the
\* request is 'rejected', get_pending_requests does not list it and the
\* whitelist is as it was, the user not on it if they were not; for a user
\* without a request it returns False and changes nothing.
C26_RejectRequest ==
    [][\A telegram_id \in TelegramIds :
           RejectRequest(telegram_id) =>
               /\ whitelist' = whitelist
               /\ limits' = limits
               /\ Get(access_requests, telegram_id, "") = "pending" =>
                      /\ returned'.value = TRUE
                      /\ access_requests'[telegram_id] = "rejected"
                      /\ telegram_id \notin get_pending_requests(access_requests')
                      /\ \A id \in DOMAIN access_requests \ {telegram_id} :
                             access_requests'[id] = access_requests[id]
               /\ ~Has(access_requests, telegram_id) =>
                      /\ returned'.value = FALSE
                      /\ access_requests' = access_requests]_vars

\* A pending request was rejected: the user is not on the whitelist, which
\* holds the user approved before
C26_Witness ==
    /\ returned = Call("reject_request", << 1002 >>, TRUE)
    /\ access_requests[1002] = "rejected"
    /\ whitelist = {1001}
    /\ get_pending_requests(access_requests) = {}

(***************************************************************************)
(* Properties of /start and the admin's commands (SpecAccess).             *)
(***************************************************************************)
\* C27: /start of a user who is not whitelisted calls create_access_request,
\* which returns True exactly when the user had no request and it stored one
\* as 'pending', and False when the user had one, which it leaves as it is.
\* The admin is told of a request in exactly the steps that create it; as no
\* step removes a request, that is once per user and never for a later /start.
C27_NotifiedOncePerUser ==
    [][/\ \A p \in People :
              StartCommand(p) =>
                  /\ UserId(p) \notin whitelist' =>
                         /\ returned'.call = "create_access_request"
                         /\ returned'.value = ~Has(access_requests, UserId(p))
                         /\ Has(access_requests, UserId(p)) =>
                                access_requests' = access_requests
                         /\ ~Has(access_requests, UserId(p)) =>
                                access_requests' =
                                    Set(access_requests, UserId(p), "pending")
                  /\ Msg(UserId(Admin), "new_request", UserId(p)) \in sent' <=>
                         (~Has(access_requests, UserId(p))
                              /\ Has(access_requests', UserId(p)))
       /\ \A m \in sent' :
              m.text = "new_request" =>
                  ~Has(access_requests, m.about) /\ Has(access_requests', m.about)
       /\ DOMAIN access_requests \subseteq DOMAIN access_requests']_vars

\* A second /start of a user whose request is pending: no new request, and
\* only the user gets a message
C27_Witness ==
    /\ returned = Call("create_access_request", << 1001 >>, FALSE)
    /\ access_requests[1001] = "pending"
    /\ sent = {Msg(1001, "request_sent", 1001)}

\* What admin_only leaves of a command of someone who is not the admin
TurnedAway(p) ==
    /\ whitelist' = whitelist
    /\ access_requests' = access_requests
    /\ limits' = limits
    /\ returned' = NoReturn
    /\ sent' = {Msg(UserId(p), "not_authorized", UserId(p))}

\* C28: /approve, /reject, /pending, /setlimit, /removelimit and /limits sent
\* by anyone whose id is not the admin's leave the whitelist, the access
\* requests and the duration limits unchanged, call no service method and
\* send nothing but the not-authorized reply to the sender.
C28_AdminOnly ==
    [][\A p \in People :
           UserId(p) # UserId(Admin) =>
               /\ \A args \in IdArgs :
                      /\ ApproveCommand(p, args) => TurnedAway(p)
                      /\ RejectCommand(p, args) => TurnedAway(p)
                      /\ RemoveLimitCommand(p, args) => TurnedAway(p)
               /\ \A args \in LimitArgs : SetLimitCommand(p, args) => TurnedAway(p)
               /\ PendingCommand(p) => TurnedAway(p)
               /\ LimitsCommand(p) => TurnedAway(p)]_vars

\* A user with a pending request and a limit set by the admin was turned away
C28_Witness ==
    /\ sent = {Msg(1001, "not_authorized", 1001)}
    /\ Has(access_requests, 1001)
    /\ access_requests[1001] = "pending"
    /\ Has(limits, 1001)
    /\ 1001 \notin whitelist

(***************************************************************************)
(* Properties of the booking service (SpecBookings).                       *)
(***************************************************************************)
\* The row with the id is the user's
Owned(row_id, telegram_id) ==
    {row \in bookings : row.id = row_id /\ row.telegram_id = telegram_id}

\* C29: get_booking_for_user returns the row for its owner and None for anyone
\* else; mark_cancelled returns True exactly when the row is the caller's and
\* active (the owner's first call) and False when it is cancelled already (a
\* later call) or someone else's, and then changes nothing; after it the row
\* is cancelled; list_upcoming_bookings returns no cancelled row.
C29_OwnershipAndCancel ==
    [][\A row_id \in RowIds, telegram_id \in TelegramIds :
           /\ (/\ returned'.call = "get_booking_for_user"
               /\ returned'.args = << row_id, telegram_id >>) =>
                  returned'.value = IF Owned(row_id, telegram_id) = {} THEN None
                                    ELSE CHOOSE row \in Owned(row_id, telegram_id) : TRUE
           /\ (/\ returned'.call = "mark_cancelled"
               /\ returned'.args = << row_id, telegram_id >>) =>
                  /\ returned'.value =
                         (\E row \in Owned(row_id, telegram_id) : row.status = "active")
                  /\ returned'.value = FALSE => bookings' = bookings
                  /\ \A row \in bookings' :
                         (row.id = row_id /\ row.telegram_id = telegram_id) =>
                             row.status = "cancelled"
           /\ (/\ returned'.call = "list_upcoming_bookings"
               /\ returned'.args = << telegram_id >>) =>
                  \A row \in returned'.value : row.status # "cancelled"]_vars

(***************************************************************************)
(* Properties of the retry controls (Spec).                                *)
(***************************************************************************)
\* The user looks at the message of a failed fetch or a failed confirm, with
\* its control for the session's timezone
RetryOffered(u) ==
    /\ conv[u] = VIEWING_AVAILABILITY
    /\ shown[u].text \in {"load_failed", "slot_taken", "generic_error"}
    /\ Has(user_data[u], "timezone")
    /\ CbTz(user_data[u]["timezone"]) \in shown[u].buttons

\* C30: pressing the retry / pick-another-time control of a failed fetch or a
\* failed confirm runs the availability fetch again for the same timezone and
\* the duration already chosen (its outcome is what the user sees next) and
\* leaves the conversation in VIEWING_AVAILABILITY, whether the user has a
\* duration limit or not.
C30_RetryRefetches ==
    [][\A u \in Bookers, tg \in Telegram \ {"error"} :
           \/ ~RetryOffered(u)
           \/ /\ conv'[u] = VIEWING_AVAILABILITY
              /\ shown'[u].text \in {"availability", "no_slots", "load_failed"}
              /\ Get(user_data'[u], "timezone", "") = user_data[u]["timezone"]
              /\ Get(user_data'[u], "duration", NoLimit)
                     = Get(user_data[u], "duration", NoLimit)
           \/ ~\E r \in FetchReplies :
                   SelectTimezone(u, CbTz(user_data[u]["timezone"]), r, tg)]_vars

(***************************************************************************)
(* Properties of the availability view (Spec).                             *)
(***************************************************************************)
\* The fields of user_data an earlier step of the conversation collected
Collected == {"selected_date", "selected_time", "name", "email"}

\* C31: when a handler's availability fetch fails or finds no slot in any day
\* of the window, the handler returns VIEWING_AVAILABILITY, the message has a
\* cancel button and a way forward (change timezone after an empty window,
\* retry for the session's timezone after a failure), and user_data is as the
\* handler set it before the fetch: the timezone and the duration are the ones
\* chosen, the slot, name and email collected earlier are as they were.
C31_FetchFailureKeepsSession ==
    [][\A u \in Bookers, tg \in Telegram \ {"error"} :
           \/ shown'[u].text \notin {"no_slots", "load_failed"}
           \/ \A data \in Pressable(u) :
                  LET ud == user_data'[u]
                      limit == Get(limits, UserId(u), NoLimit)
                      tz == HasPrefix(data, "tz")
                      dur == HasPrefix(data, "duration")
                  IN
                  \/ /\ conv'[u] = VIEWING_AVAILABILITY
                     /\ CbCancel \in shown'[u].buttons
                     /\ IF shown'[u].text = "no_slots"
                        THEN CbChangeTz \in shown'[u].buttons
                        ELSE CbTz(Get(ud, "timezone", "")) \in shown'[u].buttons
                     /\ Get(ud, "timezone", "") =
                            IF tz THEN SplitTokens(data, 1)[2]
                            ELSE Get(user_data[u], "timezone", "")
                     /\ Get(ud, "duration", NoLimit) =
                            IF tz THEN limit
                            ELSE IF dur /\ IsInt(SplitTokens(data, 1)[2])
                            THEN ParseInt(SplitTokens(data, 1)[2])
                            ELSE Get(user_data[u], "duration", NoLimit)
                     /\ \A k \in Collected :
                            /\ Has(ud, k) = Has(user_data[u], k)
                            /\ Get(ud, k, None) = Get(user_data[u], k, None)
                  \/ ~\E r \in FetchReplies :
                         \/ tz /\ SelectTimezone(u, data, r, tg)
                         \/ dur /\ SelectDuration(u, data, r, tg)
                         \/ HasPrefix(data, "dates") /\ LoadMoreDates(u, data, r, tg)]_vars

\* A user whose confirm failed pressed the control of that message, the fetch
\* failed, and the name entered before is still there
C31_Witness ==
    \E u \in Bookers :
        /\ conv[u] = VIEWING_AVAILABILITY
        /\ shown[u] = Message("load_failed", {CbTz("Asia/Omsk"), CbCancel})
        /\ Has(user_data[u], "name")
        /\ Get(user_data[u], "timezone", "") = "Asia/Omsk"

\* The offsets pagination can reach, and one step beyond
Offsets == {n \in 0 .. (MaxOffsetDays + 5) : n % 5 = 0}
OffsetDays(ud) == Get(ud, "offset_days", 0)
\* The messages _show_availability ends in
FetchTexts == {"availability", "no_slots", "load_failed"}
\* The offset the keyboard of an availability message was built for: its
\* forward control carries that offset plus 5
WindowOffset(msg) ==
    (CHOOSE n \in Offsets : /\ CbDates(n) \in msg.buttons
                            /\ \A m \in Offsets : CbDates(m) \in msg.buttons => m <= n) - 5

\* C32 as stated: offset_days is a non-negative multiple of 5 in every state
\* and equals the offset of the window fetched last, so a handler that returns
\* without fetching, the conversation going on, leaves it at the offset of the
\* window that is on the screen.
C32_OffsetOfLastWindow ==
    [][\A u \in Bookers :
           /\ OffsetDays(user_data'[u]) \in Offsets
           /\ \/ OffsetDays(user_data'[u]) = OffsetDays(user_data[u])
              \/ ~(/\ conv[u] = VIEWING_AVAILABILITY
                   /\ shown[u].text = "availability"
                   /\ OffsetDays(user_data[u]) = WindowOffset(shown[u])
                   /\ conv'[u] # END
                   /\ shown'[u] # shown[u]
                   /\ shown'[u].text \notin FetchTexts \cup {"loading"})]_vars

\* C32, amended: offset_days is a non-negative multiple of 5 in every state;
\* select_timezone sets it to 0 and load_more_dates to the offset of the
\* control pressed; a handler that returns showing a window shows the window
\* fetched at offset_days, with the forward control for offset_days + 5 and a
\* backward control, for offset_days - 5, exactly when offset_days > 0.
C32_OffsetDays ==
    [][\A u \in Bookers :
           LET ud == user_data'[u]
               off == OffsetDays(ud)
               dates == {n \in Offsets : CbDates(n) \in shown'[u].buttons}
               Ran(data) ==
                   \E r \in FetchReplies, tg \in Telegram \ {"error"} :
                       \/ HasPrefix(data, "tz") /\ SelectTimezone(u, data, r, tg)
                       \/ HasPrefix(data, "duration") /\ SelectDuration(u, data, r, tg)
                       \/ HasPrefix(data, "dates") /\ LoadMoreDates(u, data, r, tg)
           IN
           /\ off \in Offsets
           /\ \/ conv[u] \notin {SELECTING_TIMEZONE, SELECTING_DURATION,
                                  VIEWING_AVAILABILITY, CONFIRMING}
              \/ /\ \/ shown'[u].text # "availability"
                    \/ /\ dates = {off + 5} \cup (IF off > 0 THEN {off - 5} ELSE {})
                       /\ CacheKey(Args(get_event_type_id(Get(ud, "duration", 30)),
                                        Today + off, Today + off + 14,
                                        Get(ud, "timezone", "")))
                              \in DOMAIN cache'
                    \/ ~\E data \in Pressable(u) : Ran(data)
                 /\ \A data \in Pressable(u) :
                        \/ IF HasPrefix(data, "tz") THEN off = 0
                           ELSE IF HasPrefix(data, "dates") THEN CbDates(off) = data
                           ELSE IF HasPrefix(data, "duration")
                           THEN off = OffsetDays(user_data[u])
                           ELSE TRUE
                        \/ ~Ran(data)]_vars

\* The user went one page forward: the window at offset 5 is on the screen,
\* with a control back to 0
C32_Witness ==
    \E u \in Bookers :
        /\ conv[u] = VIEWING_AVAILABILITY
        /\ shown[u].text = "availability"
        /\ OffsetDays(user_data[u]) = 5
        /\ {CbDates(0), CbDates(10)} \subseteq shown[u].buttons

(***************************************************************************)
(* Properties of the client under concurrent callers, continued (SpecRace).*)
(***************************************************************************)
\* C33: once a create_booking has succeeded, the first get_availability that
\* begins afterwards for given arguments is not served from the cache: it
\* starts a network call, whatever other calls were in flight meanwhile.
C33_FirstGetAfterBookingFetches ==
    [][\A a \in GetArgs :
           (a \in unfetched /\ a \notin unfetched') =>
               \E c \in Callers : /\ inflight[c].op = "idle"
                                  /\ inflight'[c].op = "get"
                                  /\ inflight'[c].args = a]_vars

(***************************************************************************)
(* Properties of create_booking's attempts (SpecPost).                     *)
(***************************************************************************)
\* C34: one call of create_booking makes at most one booking at the provider,
\* and when it made one it does not end in CalComAPIError.
C34_AtMostOneBooking ==
    Done => /\ upver <= 1
            /\ upver >= 1 => result.ok

====
